---- MODULE Spec2Model ----
(***************************************************************************)
(* Model of the Evidentiary Synthesis Engine of the TruthGuard backend:    *)
(*   - the claim-debate pipeline   (app/ai/debate_pipeline.py)             *)
(*   - the media-synthesis pipeline (app/ai/deepfake_pipeline.py)          *)
(*   - the provider clients they call (gemini_client.py, serper_adapter.py,*)
(*     factcheck_adapter.py, cv_deepfake_detector.py,                      *)
(*     spatial_artifact_detector.py).                                      *)
(*                                                                         *)
(* A run is one coroutine.  Python runs the code between two awaits        *)
(* atomically, so every action below is either the completion of one       *)
(* provider call or the piece of run() between two awaits.                 *)
(*                                                                         *)
(* Texts are sequences of one-character strings, so that strip(), upper(), *)
(* split() and the substring test are computed and not assumed.  Numbers   *)
(* that are floats in the code are kept in hundredths (0.18 is 18,         *)
(* confidence 78 is 7800).  Prompt texts are not state: a provider's reply *)
(* is chosen freely whatever the prompt was.                               *)
(***************************************************************************)
EXTENDS Integers, Sequences, FiniteSets, TLC

VARIABLES
    ai_mock_mode,               \* settings.ai_mock_mode
    gemini_api_key,             \* bool(settings.gemini_api_key)
    serper_api_key,             \* bool(settings.serper_api_key)
    google_fact_check_api_key,  \* bool(settings.google_fact_check_api_key)
    pipeline,       \* which run is in progress: none / debate / image / audio / video
    pc,             \* position of the run coroutine
    call,           \* call id -> idle / pending / done / caught / raised
    reply,          \* call id -> value the call returned (NoReply until then)
    issued,         \* call id -> number of times the call was issued
    first_done,     \* media, history: the call of the gather that completed first
    claim_type,     \* debate: normalised claim type
    pro_search,     \* debate: supporting search results
    con_search,     \* debate: opposing search results
    no_evidence,    \* debate, history: every evidence lookup of the run came back empty
    degraded,       \* history: a failure inside a lookup or classifier was caught in this run
    pro_sources,    \* debate: citations of the supporting side
    con_sources,    \* debate: citations of the opposing side
    media,          \* media: the payload handed to run_image / run_audio / run_video
    probe,          \* media: call id -> parsed probe dict
    aux,            \* media: call id -> auxiliary classifier result
    result,         \* the DebateResult / DeepfakeResult returned, NoResult until then
    err,             \* the exception that left run(), "none" if none
    sent,           \* vision call id -> what the call handed to the provider
    link,           \* result["link"] of the search result being scored
    scored,         \* what score_result returned for it
    event,          \* the HeatmapEvent handed to assess_event
    assessed,       \* what the successive applications of assess_event returned
    region,         \* the RegionStats handed to assess_region
    region_scored,  \* what assess_region returned for it
    _EVENTS,        \* heatmap: the module-level list of seed hotspots
    _REGIONS,       \* heatmap: the module-level list of seed regions
    _NARRATIVES,    \* heatmap: the module-level list of seed narratives
    response,       \* heatmap: the request last served and the snapshot it returned
    detector,       \* classifier singleton: _load_attempted, _pipe, and the loads run
    worker          \* worker thread id -> its position in _detect_sync and its result

vars == <<ai_mock_mode, gemini_api_key, serper_api_key, google_fact_check_api_key,
          pipeline, pc, call, reply, issued, first_done, claim_type, pro_search,
          con_search, no_evidence, degraded, pro_sources, con_sources, media,
          probe, aux, result, err, sent, link, scored, event, assessed, region,
          region_scored, _EVENTS, _REGIONS, _NARRATIVES, response, detector, worker>>

\* The state of the source evaluator, the stability scorer, the heatmap route
\* and the classifier singleton, which the two pipelines leave alone.
credibility == <<link, scored>>
stability == <<event, assessed, region, region_scored>>
heatmap == <<_EVENTS, _REGIONS, _NARRATIVES, response>>
detectors == <<detector, worker>>
pure == <<credibility, stability, heatmap, detectors>>

config == <<ai_mock_mode, gemini_api_key, serper_api_key, google_fact_check_api_key>>

\* The state of the two pipelines.
engine == <<config, sent, pipeline, pc, call, reply, issued, first_done, claim_type,
            pro_search, con_search, no_evidence, degraded, pro_sources, con_sources,
            media, probe, aux, result, err>>

-----------------------------------------------------------------------------
(* Bounds of the model.                                                    *)

\* Longest result list a search provider returns in the model.
MaxResults == 1

-----------------------------------------------------------------------------
(* Python text operations on sequences of characters.                      *)

LowerChars == <<"a","b","c","d","e","f","g","h","i","j","k","l","m",
                "n","o","p","q","r","s","t","u","v","w","x","y","z">>
UpperChars == <<"A","B","C","D","E","F","G","H","I","J","K","L","M",
                "N","O","P","Q","R","S","T","U","V","W","X","Y","Z">>
DigitChars == <<"0","1","2","3","4","5","6","7","8","9">>

IsSpace(c) == c \in {" ", "\n", "\t"}
IsDigit(c) == \E i \in 1..10 : DigitChars[i] = c
DigitVal(c) == (CHOOSE i \in 1..10 : DigitChars[i] = c) - 1

UpperChar(c) ==
    IF \E i \in 1..26 : LowerChars[i] = c
    THEN UpperChars[CHOOSE i \in 1..26 : LowerChars[i] = c]
    ELSE c

\* str.upper()
str_upper(s) == [i \in 1..Len(s) |-> UpperChar(s[i])]

\* str.strip()
str_strip(s) ==
    LET keep == {i \in 1..Len(s) : ~IsSpace(s[i])}
    IN  IF keep = {} THEN <<>>
        ELSE SubSeq(s, CHOOSE i \in keep : \A j \in keep : i <= j,
                       CHOOSE i \in keep : \A j \in keep : j <= i)

\* str.split(): the words between runs of whitespace
RECURSIVE str_split(_)
str_split(s) ==
    IF s = <<>> THEN <<>>
    ELSE IF IsSpace(s[1]) THEN str_split(Tail(s))
    ELSE LET stops == {i \in 1..Len(s) : IsSpace(s[i])}
             n == IF stops = {} THEN Len(s) + 1
                  ELSE CHOOSE i \in stops : \A j \in stops : i <= j
         IN  <<SubSeq(s, 1, n - 1)>> \o str_split(SubSeq(s, n, Len(s)))

\* needle in hay
str_contains(hay, needle) ==
    \E i \in 1..(Len(hay) - Len(needle) + 1) :
        SubSeq(hay, i, i + Len(needle) - 1) = needle

\* s[:n]
str_take(s, n) == SubSeq(s, 1, IF Len(s) < n THEN Len(s) ELSE n)

\* re.search(r"\{[\s\S]*\}", text): a "{" with a "}" somewhere after it
re_search_braces(text) ==
    \E i \in 1..Len(text) : \E j \in (i + 1)..Len(text) :
        text[i] = "{" /\ text[j] = "}"

-----------------------------------------------------------------------------
(* JSON values as Python sees them after json.loads.  t is the Python type,*)
(* n the number in hundredths (for bool: 0 or 100), s the text of a str.   *)

Absent   == [t |-> "absent", n |-> 0, s |-> <<>>]     \* key not in the dict
JNull    == [t |-> "null",   n |-> 0, s |-> <<>>]     \* None
JList    == [t |-> "list",   n |-> 0, s |-> <<>>]     \* a (here: empty) list
JStr(s)  == [t |-> "str",    n |-> 0, s |-> s]
JNum(h)  == [t |-> "num",    n |-> h, s |-> <<>>]
JBool(b) == [t |-> "bool",   n |-> IF b THEN 100 ELSE 0, s |-> <<>>]

\* dict.get(key, default)
dict_get(v, default) == IF v = Absent THEN default ELSE v

\* value of a run of decimal digits
RECURSIVE digits_value(_)
digits_value(s) ==
    IF s = <<>> THEN 0
    ELSE 10 * digits_value(SubSeq(s, 1, Len(s) - 1)) + DigitVal(s[Len(s)])

AllDigits(s) == s # <<>> /\ \A i \in 1..Len(s) : IsDigit(s[i])

\* Truncation toward zero of a number kept in hundredths.
Trunc(h) == IF h >= 0 THEN h \div 100 ELSE -((-h) \div 100)

\* int(v): [exc |-> "none", val |-> integer] or the exception raised
py_int(v) ==
    CASE v.t = "num"  -> [exc |-> "none", val |-> Trunc(v.n)]
      [] v.t = "bool" -> [exc |-> "none", val |-> v.n \div 100]
      [] v.t = "str"  ->
            LET body == str_strip(v.s)
                neg  == body # <<>> /\ body[1] = "-"
                digs == IF body # <<>> /\ body[1] \in {"-", "+"} THEN Tail(body) ELSE body
            IN  IF AllDigits(digs)
                THEN [exc |-> "none",
                      val |-> IF neg THEN -digits_value(digs) ELSE digits_value(digs)]
                ELSE [exc |-> "ValueError", val |-> 0]
      [] OTHER        -> [exc |-> "TypeError", val |-> 0]

\* v.upper(): only a str has the method
py_upper(v) ==
    IF v.t = "str" THEN [exc |-> "none", val |-> str_upper(v.s)]
    ELSE [exc |-> "AttributeError", val |-> <<>>]

-----------------------------------------------------------------------------
(* Calls of a run.                                                         *)

SerperCalls   == {"pro_search", "con_search", "fc_search", "corr_search"}
SearchCalls   == SerperCalls \cup {"factcheck"}
EagerStage1Calls == SearchCalls \cup {"classifier", "agent_pro", "agent_con"}
Stage1Calls   == SearchCalls \cup {"classifier"}
AgentCalls    == {"agent_pro", "agent_con"}
DebateGemini  == {"classifier", "agent_pro", "agent_con", "judge"}
DebateCalls   == Stage1Calls \cup AgentCalls \cup {"judge"}

GeminiProbes  == {"probe_a", "probe_b", "probe_c"}
AuxCalls      == {"cv", "spatial"}
MediaGemini   == GeminiProbes \cup {"synth"}
MediaCalls    == GeminiProbes \cup AuxCalls \cup {"synth"}

AllCalls      == DebateCalls \cup MediaCalls

NoReply  == [kind |-> "none"]
NoResult == [kind |-> "none"]

\* GeminiClient.mock_mode after __init__
mock_mode == ai_mock_mode \/ ~gemini_api_key

-----------------------------------------------------------------------------
(* Texts used as provider replies and the names the code compares with.    *)

V_TRUE       == <<"T", "R", "U", "E">>
V_FALSE      == <<"F", "A", "L", "S", "E">>
V_MISLEADING == <<"M", "I", "S", "L", "E", "A", "D", "I", "N", "G">>
V_UNVERIFIED == <<"U", "N", "V", "E", "R", "I", "F", "I", "E", "D">>
V_SATIRE     == <<"S", "A", "T", "I", "R", "E">>

\* VerdictType of models/report.py
VerdictType == {V_TRUE, V_FALSE, V_MISLEADING, V_UNVERIFIED, V_SATIRE}

C_EVENT_REPORT      == <<"E", "V", "E", "N", "T", "_", "R", "E", "P", "O", "R", "T">>
C_STATISTICAL_CLAIM == <<"S", "T", "A", "T", "I", "S", "T", "I", "C", "A", "L", "_", "C", "L", "A", "I", "M">>
C_OPINION           == <<"O", "P", "I", "N", "I", "O", "N">>
C_HISTORICAL        == <<"H", "I", "S", "T", "O", "R", "I", "C", "A", "L">>
C_GENERAL           == <<"G", "E", "N", "E", "R", "A", "L">>

ClaimTypes == {C_EVENT_REPORT, C_STATISTICAL_CLAIM, C_OPINION, C_HISTORICAL, C_GENERAL}

\* Classifier replies: "", " \n", "OPINION", "event_report\n", "Historical claim",
\* "STATISTICAL_CLAIM." and the canned "[MOCK] This is ..." of mock mode.
T_EMPTY            == <<>>
T_BLANK            == <<" ", "\n">>
T_OPINION          == <<"O", "P", "I", "N", "I", "O", "N">>
T_event_report     == <<"e", "v", "e", "n", "t", "_", "r", "e", "p", "o", "r", "t", "\n">>
T_Historical_claim == <<"H", "i", "s", "t", "o", "r", "i", "c", "a", "l", " ", "c", "l", "a", "i", "m">>
T_statistical_dot  == <<"S", "T", "A", "T", "I", "S", "T", "I", "C", "A", "L", "_", "C", "L", "A", "I", "M", ".">>
T_MOCK_default     == <<"[", "M", "O", "C", "K", "]", " ", "T", "h", "i", "s", " ", "i", "s">>

ClassifierTexts == {T_EMPTY, T_BLANK, T_OPINION, T_event_report, T_Historical_claim,
                    T_statistical_dot}

\* Agent replies: "" and a text with an ARGUMENT section (the canned one).
T_agent == <<"A", "R", "G", "U", "M", "E", "N", "T", ":", " ", "x">>
AgentTexts == {T_EMPTY, T_agent}

\* Judge replies that hold no JSON object json.loads accepts.
J_true_lower == <<"V", "e", "r", "d", "i", "c", "t", ":", " ", "t", "r", "u", "e", ".">>
J_False      == <<"I", "t", " ", "i", "s", " ", "F", "a", "l", "s", "e">>
J_misleading == <<"m", "i", "s", "l", "e", "a", "d", "i", "n", "g">>
J_satire     == <<"P", "u", "r", "e", " ", "S", "A", "T", "I", "R", "E">>
J_unverified == <<"u", "n", "v", "e", "r", "i", "f", "i", "e", "d">>
J_none       == <<"n", "o", " ", "i", "d", "e", "a">>
J_broken     == <<"{", "v", "e", "r", "d", "i", "c", "t", ":", " ", "s", "a", "t", "i", "r", "e", "}">>
J_two        == <<"t", "r", "u", "e", " ", "o", "r", " ", "f", "a", "l", "s", "e">>

JudgeTexts == {T_EMPTY, J_true_lower, J_False, J_misleading, J_satire, J_unverified,
               J_none, J_broken, J_two}

\* Values of JSON fields.
S_mostly_true == <<"M", "o", "s", "t", "l", "y", " ", "T", "r", "u", "e">>
S_false_lower == <<"f", "a", "l", "s", "e">>
S_85          == <<"8", "5">>
S_high        == <<"h", "i", "g", "h">>
T_json        == <<"{", "}">>

\* A Gemini reply: its text, and obj, the dict json.loads makes of the text
\* from its first "{" to its last "}" (NoObj when json.loads rejects it or
\* the text has no such part).
NoObj == [kind |-> "none"]
TextReply(text) == [kind |-> "text", text |-> text, obj |-> NoObj]
JsonReply(obj)  == [kind |-> "text", text |-> T_json, obj |-> obj]

JudgeObj(v, c) == [kind |-> "judge", verdict |-> v, confidence |-> c]

\* _MOCK_RESPONSES["judge"]: {"verdict": "TRUE", "confidence": 78, ...}
MockJudgeConfidence == 78
MockJudge == JudgeObj(JStr(V_TRUE), JNum(MockJudgeConfidence * 100))

\* Judge JSON objects: each verdict value with the canned confidence, each
\* confidence value with the canned verdict, and one with both fields null.
JudgeVerdictValues == {Absent, JNull, JNum(100), JStr(V_TRUE), JStr(S_false_lower),
                       JStr(S_mostly_true)}
JudgeConfidenceValues == {Absent, JNull, JNum(7800), JNum(8850), JNum(15000),
                          JNum(-500), JStr(S_85), JStr(S_high)}
JudgeObjs ==
    {JudgeObj(v, JNum(7800)) : v \in JudgeVerdictValues}
    \cup {JudgeObj(JStr(V_TRUE), c) : c \in JudgeConfidenceValues}
    \cup {JudgeObj(JNull, JNull)}

JudgeReplies == {TextReply(t) : t \in JudgeTexts} \cup {JsonReply(o) : o \in JudgeObjs}

-----------------------------------------------------------------------------
(* Search results.  A Serper organic entry has title, snippet and link,    *)
(* each a str or missing.                                                  *)

S_title   == <<"R", "e", "u", "t", "e", "r", "s">>
S_snippet == <<"A", " ", "w", "i", "r", "e">>
S_url     == <<"h", "t", "t", "p", "s", ":", "/", "/", "r", ".", "c", "o", "m">>
S_Source  == <<"S", "o", "u", "r", "c", "e">>

R_titled  == [title |-> JStr(S_title), snippet |-> JStr(S_snippet), link |-> JStr(S_url)]
R_snippet == [title |-> JStr(<<>>),    snippet |-> JStr(S_snippet), link |-> Absent]
R_blank   == [title |-> Absent,        snippet |-> JStr(<<>>),      link |-> JStr(S_url)]

RECURSIVE ListsUpTo(_, _)
ListsUpTo(kinds, n) ==
    IF n = 0 THEN {<<>>}
    ELSE LET shorter == ListsUpTo(kinds, n - 1)
         IN  shorter \cup {Append(l, k) : l \in shorter, k \in kinds}

\* What a search call may return.  Only the supporting and the opposing
\* lists are read entry by entry; of the others only emptiness is used.
SearchReplies(c) ==
    IF c \in {"pro_search", "con_search"}
    THEN ListsUpTo({R_titled, R_snippet, R_blank}, MaxResults)
    ELSE {<<>>, <<R_titled>>}

-----------------------------------------------------------------------------
(* debate_pipeline.py: parsing helpers.                                    *)

KeywordConfidence    == 60      \* _parse_judge: confidence of a keyword verdict
UnverifiedConfidence == 30      \* _parse_judge: confidence when nothing is found
DefaultConfidence    == 50      \* run: judge_data.get("confidence", 50)
TitleLen             == 60      \* _extract_sources: snippet[:60]
MaxSourcesPerSide    == 3       \* _extract_sources: search_results[:3]
MaxSources           == 6       \* run: (pro_sources + con_sources)[:6]

\* The verdict words _parse_judge scans for, in the order of its loop.
ScanOrder == <<V_TRUE, V_FALSE, V_MISLEADING, V_SATIRE>>

\* A scan of the text as it is, without upper-casing it first.
keyword_scan_raw(text) ==
    LET hits == {i \in 1..Len(ScanOrder) : str_contains(text, ScanOrder[i])}
    IN  IF hits = {}
        THEN JudgeObj(JStr(V_UNVERIFIED), JNum(UnverifiedConfidence * 100))
        ELSE JudgeObj(JStr(ScanOrder[CHOOSE i \in hits : \A j \in hits : i <= j]),
                      JNum(KeywordConfidence * 100))

\* The loop "for v in (...): if v in upper: return ..." of _parse_judge:
\* the first word of ScanOrder that the upper-cased text contains.
keyword_scan(text) ==
    LET upper == str_upper(text)
        hits  == {i \in 1..Len(ScanOrder) : str_contains(upper, ScanOrder[i])}
    IN  IF hits = {}
        THEN JudgeObj(JStr(V_UNVERIFIED), JNum(UnverifiedConfidence * 100))
        ELSE JudgeObj(JStr(ScanOrder[CHOOSE i \in hits : \A j \in hits : i <= j]),
                      JNum(KeywordConfidence * 100))

\* _parse_judge(text): the decoded object when the text has a {...} part
\* that json.loads accepts, else the keyword scan of the raw text.
_parse_judge(r) ==
    IF re_search_braces(r.text) /\ r.obj # NoObj THEN r.obj
    ELSE keyword_scan(r.text)

\* title = r.get("title") or r.get("snippet", "Source")[:60]
source_title(r) ==
    IF r.title.t = "str" /\ r.title.s # <<>> THEN r.title.s
    ELSE str_take(dict_get(r.snippet, JStr(S_Source)).s, TitleLen)

SourceRef(title, url) == [title |-> title, url |-> url]

RECURSIVE sources_of(_)
sources_of(rs) ==
    IF rs = <<>> THEN <<>>
    ELSE LET title == source_title(Head(rs))
             url   == dict_get(Head(rs).link, JStr(<<>>)).s
         IN  (IF title # <<>> THEN <<SourceRef(title, url)>> ELSE <<>>)
             \o sources_of(Tail(rs))

\* _extract_sources(search_results)
_extract_sources(search_results) ==
    sources_of(str_take(search_results, MaxSourcesPerSide))

\* The fixed citations run() substitutes for a side without sources.
T_Reuters_FC == <<"R", "e", "u", "t", "e", "r", "s", " ", "F", "C">>
T_WHO        == <<"W", "H", "O">>
T_AP         == <<"A", "P", " ", "F", "C">>
T_Snopes     == <<"S", "n", "o", "p", "e", "s">>
T_PolitiFact == <<"P", "o", "l", "i", "t", "i", "F", "a", "c", "t">>
U_reuters    == <<"r", "e", "u", "t", "e", "r", "s", ".", "c", "o", "m">>
U_who        == <<"w", "h", "o", ".", "i", "n", "t">>
U_apnews     == <<"a", "p", "n", "e", "w", "s", ".", "c", "o", "m">>
U_snopes     == <<"s", "n", "o", "p", "e", "s", ".", "c", "o", "m">>
U_politifact == <<"p", "o", "l", "i", "t", "i", "f", "a", "c", "t", ".", "c", "o", "m">>

ProFallback == <<SourceRef(T_Reuters_FC, U_reuters), SourceRef(T_WHO, U_who)>>
ConFallback == <<SourceRef(T_AP, U_apnews), SourceRef(T_Snopes, U_snopes),
                 SourceRef(T_PolitiFact, U_politifact)>>

\* pro_sources = _extract_sources(pro_search); if not pro_sources: pro_sources = [...]
\* The citations of a side without the substitution.
sources_without_fallback(search_results, fallback) == _extract_sources(search_results)

sources_or_fallback(search_results, fallback) ==
    LET sources == _extract_sources(search_results)
    IN  IF sources = <<>> THEN fallback ELSE sources

\* claim_type = claim_type_raw.strip().upper().split()[0], GENERAL if unknown
normalise_claim_type(claim_type_raw) ==
    LET words == str_split(str_upper(str_strip(claim_type_raw)))
    IN  IF words = <<>> THEN [exc |-> "IndexError", val |-> <<>>]
        ELSE [exc |-> "none",
              val |-> IF words[1] \in ClaimTypes THEN words[1] ELSE C_GENERAL]

\* Lines 448-473 of run(): the DebateResult made of the judge's reply, or
\* the exception one of its conversions raises.
judge_outcome(judge_raw, pro_srcs, con_srcs) ==
    LET judge_data == _parse_judge(judge_raw)
        verdict    == py_upper(dict_get(judge_data.verdict, JStr(V_UNVERIFIED)))
        confidence == py_int(dict_get(judge_data.confidence, JNum(DefaultConfidence * 100)))
    IN  IF verdict.exc # "none" THEN [exc |-> verdict.exc, val |-> NoResult]
        ELSE IF confidence.exc # "none" THEN [exc |-> confidence.exc, val |-> NoResult]
        ELSE [exc |-> "none",
              val |-> [kind        |-> "debate",
                       verdict     |-> verdict.val,
                       confidence  |-> confidence.val,
                       sources     |-> str_take(pro_srcs \o con_srcs, MaxSources),
                       pro_sources |-> pro_srcs,
                       con_sources |-> con_srcs]]

-----------------------------------------------------------------------------
(* The provider clients.                                                   *)

\* _MOCK_RESPONSES[response_key] of gemini_client.py for the debate calls
MockResponse(c) ==
    CASE c = "classifier" -> TextReply(T_MOCK_default)
      [] c \in AgentCalls -> TextReply(T_agent)
      [] c = "judge"      -> JsonReply(MockJudge)

\* The texts a real Gemini call may return for each debate call.
GeminiReplies(c) ==
    CASE c = "classifier" -> {TextReply(t) : t \in ClassifierTexts}
      [] c \in AgentCalls -> {TextReply(t) : t \in AgentTexts}
      [] c = "judge"      -> JudgeReplies

Returned(c, status, value) ==
    /\ call'  = [call EXCEPT ![c] = status]
    /\ reply' = [reply EXCEPT ![c] = value]

\* SerperAdapter.search: [] without an API key, [] on any error (caught
\* inside the adapter), else the organic results.
SerperSearch(c) ==
    /\ c \in SerperCalls
    /\ call[c] = "pending"
    /\ IF ~serper_api_key THEN Returned(c, "done", <<>>)
       ELSE \/ \E rs \in SearchReplies(c) : Returned(c, "done", rs)
            \/ Returned(c, "caught", <<>>)
    /\ UNCHANGED <<pure, config, sent, pipeline, pc, issued, first_done, claim_type, pro_search,
                   con_search, no_evidence, degraded, pro_sources, con_sources,
                   media, probe, aux, result, err>>

\* FactCheckAdapter.search: the same contract for the fact-check lookup.
FactCheckSearch ==
    /\ call["factcheck"] = "pending"
    /\ IF ~google_fact_check_api_key THEN Returned("factcheck", "done", <<>>)
       ELSE \/ \E rs \in SearchReplies("factcheck") : Returned("factcheck", "done", rs)
            \/ Returned("factcheck", "caught", <<>>)
    /\ UNCHANGED <<pure, config, sent, pipeline, pc, issued, first_done, claim_type, pro_search,
                   con_search, no_evidence, degraded, pro_sources, con_sources,
                   media, probe, aux, result, err>>

\* GeminiClient.generate: the canned reply in mock mode; in real mode the
\* model's text, or the SDK's exception, logged and raised again.
Generate(c) ==
    /\ c \in DebateGemini
    /\ call[c] = "pending"
    /\ IF mock_mode THEN Returned(c, "done", MockResponse(c))
       ELSE \/ \E r \in GeminiReplies(c) : Returned(c, "done", r)
            \/ Returned(c, "raised", NoReply)
    /\ UNCHANGED <<pure, config, sent, pipeline, pc, issued, first_done, claim_type, pro_search,
                   con_search, no_evidence, degraded, pro_sources, con_sources,
                   media, probe, aux, result, err>>

-----------------------------------------------------------------------------
(* asyncio.gather of several calls, without return_exceptions.             *)

Completed(c) == call[c] \in {"done", "caught"}

\* The awaiting coroutine resumes with the results once every call has
\* completed ...
GatherDone(calls) == \A c \in calls : Completed(c)
\* ... and resumes with the exception as soon as one call has raised.
GatherRaised(calls) == \E c \in calls : call[c] = "raised"

\* The results of the joined calls are handed to the coroutine (a failure
\* caught inside a call is from then on an ordinary result), and the calls
\* of the next await are scheduled, each once.
JoinAndIssue(joined, calls) ==
    /\ call'   = [c \in AllCalls |->
                     IF c \in calls THEN "pending"
                     ELSE IF c \in joined /\ call[c] = "caught" THEN "done"
                     ELSE call[c]]
    /\ issued' = [c \in AllCalls |-> IF c \in calls THEN issued[c] + 1 ELSE issued[c]]
    /\ degraded' = (degraded \/ \E c \in joined : call[c] = "caught")

\* The raw results of the joined calls are not read again by run().
Consume(joined) ==
    reply' = [c \in AllCalls |-> IF c \in joined THEN NoReply ELSE reply[c]]

\* The exception is swallowed and run() ends as if it had returned.
ReturnOnError(exc) ==
    /\ pc'  = "done"
    /\ err' = exc

\* The exception leaves run(): nothing is returned.
Raise(exc) ==
    /\ pc'  = "raised"
    /\ err' = exc

-----------------------------------------------------------------------------
(* DebatePipeline.run                                                      *)

\* Lines 351-373: the classifier and the five evidence lookups are gathered.
StartDebate ==
    /\ pipeline = "none"
    /\ pc = "idle"
    /\ pipeline' = "debate"
    /\ pc' = "classify_search"
    /\ JoinAndIssue({}, Stage1Calls)
    /\ UNCHANGED reply
    /\ UNCHANGED <<pure, config, sent, first_done, claim_type, pro_search, con_search, no_evidence,
                   pro_sources, con_sources, media, probe, aux, result, err>>

\* Lines 375-414: normalise the claim type, score and format the evidence,
\* gather the two argument agents.
Stage1Resume ==
    /\ pipeline = "debate"
    /\ pc = "classify_search"
    /\ \/ /\ GatherRaised(Stage1Calls)
          /\ Raise("ProviderError")
          /\ UNCHANGED <<call, reply, issued, degraded, claim_type, pro_search,
                         con_search, no_evidence>>
       \/ /\ ~GatherRaised(Stage1Calls)
          /\ GatherDone(Stage1Calls)
          /\ LET ct == normalise_claim_type(reply["classifier"].text)
             IN  IF ct.exc # "none"
                 THEN /\ Raise(ct.exc)
                      /\ UNCHANGED <<call, reply, issued, degraded, claim_type,
                                     pro_search, con_search, no_evidence>>
                 ELSE /\ claim_type' = ct.val
                      /\ pro_search' = reply["pro_search"]
                      /\ con_search' = reply["con_search"]
                      /\ no_evidence' = (\A c \in SearchCalls : reply[c] = <<>>)
                      /\ JoinAndIssue(Stage1Calls, AgentCalls)
                      /\ Consume(Stage1Calls)
                      /\ pc' = "argue"
                      /\ UNCHANGED err
    /\ UNCHANGED <<pure, config, sent, pipeline, first_done, pro_sources, con_sources, media, probe,
                   aux, result>>

\* Lines 416-447: parse the arguments, pick the citations of each side,
\* call the judge.
ArgueResume ==
    /\ pipeline = "debate"
    /\ pc = "argue"
    /\ \/ /\ GatherRaised(AgentCalls)
          /\ Raise("ProviderError")
          /\ UNCHANGED <<call, reply, issued, degraded, pro_sources, con_sources>>
       \/ /\ ~GatherRaised(AgentCalls)
          /\ GatherDone(AgentCalls)
          /\ pro_sources' = sources_or_fallback(pro_search, ProFallback)
          /\ con_sources' = sources_or_fallback(con_search, ConFallback)
          /\ JoinAndIssue(AgentCalls, {"judge"})
          /\ Consume(AgentCalls)
          /\ pc' = "judge"
          /\ UNCHANGED err
    /\ UNCHANGED <<pure, config, sent, pipeline, first_done, claim_type, pro_search, con_search,
                   no_evidence, media, probe, aux, result>>

\* Lines 448-473: parse the judge's reply and return the DebateResult.
JudgeResume ==
    /\ pipeline = "debate"
    /\ pc = "judge"
    /\ \/ /\ call["judge"] = "raised"
          /\ Raise("ProviderError")
          /\ UNCHANGED result
       \/ /\ Completed("judge")
          /\ LET out == judge_outcome(reply["judge"], pro_sources, con_sources)
             IN  IF out.exc # "none"
                 THEN Raise(out.exc) /\ UNCHANGED result
                 ELSE /\ result' = out.val
                      /\ pc' = "done"
                      /\ UNCHANGED err
    /\ UNCHANGED <<pure, config, sent, pipeline, call, reply, issued, first_done, claim_type,
                   pro_search, con_search, no_evidence, degraded, pro_sources,
                   con_sources, media, probe, aux>>

-----------------------------------------------------------------------------
(* deepfake_pipeline.py: payloads, replies and parsing helpers.            *)

\* A payload: whether base64.b64decode accepts it, and the decoded bytes.
b64_len(bytes) == 4 * ((Len(bytes) + 2) \div 3)    \* len(base64.b64encode(bytes))

Payload(kind, ok, bytes) ==
    [kind |-> kind, b64_ok |-> ok, bytes |-> bytes, len |-> b64_len(bytes)]

SOI == <<255, 216, 255>>        \* b"\xff\xd8\xff"
EOI == <<255, 217>>             \* b"\xff\xd9"

VideoPayloads ==
    { Payload("video", TRUE,  <<0, 1, 2>>),                          \* no marker
      Payload("video", TRUE,  <<0, 255, 216, 255, 7>>),              \* SOI, no EOI
      Payload("video", TRUE,  <<0, 255, 216, 255, 7, 255, 217, 9>>), \* one frame
      Payload("video", FALSE, <<>>) }                                \* not base64

Payloads(kind) ==
    IF kind = "video" THEN VideoPayloads ELSE {Payload(kind, TRUE, <<1, 2>>)}

\* bytes.find(pat, start) with 1-based positions; 0 stands for -1.
bytes_find(raw, pat, start) ==
    LET at == {i \in start..(Len(raw) - Len(pat) + 1) :
                  SubSeq(raw, i, i + Len(pat) - 1) = pat}
    IN  IF at = {} THEN 0 ELSE CHOOSE i \in at : \A j \in at : i <= j

NoFrame == [none |-> TRUE, bytes |-> <<>>]

\* DeepfakePipeline._extract_jpeg_frame
_extract_jpeg_frame(video) ==
    IF ~video.b64_ok THEN NoFrame
    ELSE LET raw        == video.bytes
             jpeg_start == bytes_find(raw, SOI, 1)
             jpeg_end   == IF jpeg_start = 0 THEN 0 ELSE bytes_find(raw, EOI, jpeg_start)
         IN  IF jpeg_start = 0 \/ jpeg_end = 0 THEN NoFrame
             ELSE [none |-> FALSE, bytes |-> SubSeq(raw, jpeg_start, jpeg_end + 1)]

\* Texts of probe and synthesiser replies.
S_clean   == <<"c", "l", "e", "a", "n">>
S_gan     == <<"g", "a", "n">>
S_0_9     == <<"0", ".", "9">>
S_parse_error  == <<"P", "a", "r", "s", "e", " ", "e", "r", "r", "o", "r">>
S_unable       == <<"U", "n", "a", "b", "l", "e">>
S_inconclusive == <<"I", "n", "c", "o", "n", "c", "l", "u", "s", "i", "v", "e", ".">>
S_complete     == <<"A", "n", "a", "l", "y", "s", "i", "s", " ", "c", "o", "m", "p", "l", "e", "t", "e", ".">>
S_genuine      == <<"g", "e", "n", "u", "i", "n", "e">>

ProbeObj(score, summary, findings) ==
    [kind |-> "probe", score |-> score, summary |-> summary, findings |-> findings]
SynthObj(is_fake, confidence, reasoning) ==
    [kind |-> "synth", is_fake |-> is_fake, confidence |-> confidence,
     reasoning |-> reasoning]

\* _MOCK_RESPONSES["deepfake_probe"] (score 0.18) and
\* _MOCK_RESPONSES["deepfake_image" / "deepfake_audio" / "deepfake_video"]
MockProbeScore == 18
MockSynthConfidence == 15
MockProbe == ProbeObj(JNum(MockProbeScore), JStr(S_clean), JList)
MockSynth == SynthObj(JBool(FALSE), JNum(MockSynthConfidence), JStr(S_genuine))

ProbeReplies ==
    { JsonReply(MockProbe),
      JsonReply(ProbeObj(JNum(92), JStr(S_gan), JList)),
      TextReply(T_EMPTY),
      JsonReply(ProbeObj(JNum(150), Absent, Absent)),
      JsonReply(ProbeObj(JNull, JStr(S_gan), JNull)),
      JsonReply(ProbeObj(JStr(S_high), JStr(S_gan), JList)),
      JsonReply(ProbeObj(JNum(92), JNull, JNum(100))) }

SynthReplies ==
    { JsonReply(MockSynth),
      JsonReply(SynthObj(JBool(TRUE), JNum(93), JStr(S_gan))),
      TextReply(T_EMPTY),
      JsonReply(SynthObj(JBool(TRUE), JNum(150), Absent)),
      JsonReply(SynthObj(Absent, JNull, JStr(S_gan))),
      JsonReply(SynthObj(JBool(TRUE), JNum(80), JNull)),
      JsonReply(SynthObj(JStr(S_false_lower), JStr(S_0_9), JStr(S_gan))) }

\* _parse_probe / _parse_synthesis: the decoded object, else the defaults
DefaultScore == 50          \* 0.5, the neutral score
_parse_probe(r) ==
    IF re_search_braces(r.text) /\ r.obj # NoObj THEN r.obj
    ELSE ProbeObj(JNum(DefaultScore), JStr(S_parse_error), JList)
_parse_synthesis(r) ==
    IF re_search_braces(r.text) /\ r.obj # NoObj THEN r.obj
    ELSE SynthObj(JBool(FALSE), JNum(DefaultScore), JStr(S_unable))

\* float() of an unsigned decimal text given as the digits before and
\* after its first "."
float_digits(whole, frac) ==
    IF /\ whole \o frac # <<>>
       /\ \A i \in 1..Len(whole) : IsDigit(whole[i])
       /\ \A i \in 1..Len(frac) : IsDigit(frac[i])
    THEN [exc |-> "none",
          val |-> 100 * digits_value(whole)
                  + digits_value(str_take(frac \o <<"0", "0">>, 2))]
    ELSE [exc |-> "ValueError", val |-> 0]

\* Position of the first "." of num, Len(num) + 1 when there is none.
first_dot(num) ==
    IF \E i \in 1..Len(num) : num[i] = "."
    THEN CHOOSE i \in 1..Len(num) :
            num[i] = "." /\ \A j \in 1..(i - 1) : num[j] # "."
    ELSE Len(num) + 1

float_split(num, dot) ==
    float_digits(SubSeq(num, 1, dot - 1), SubSeq(num, dot + 1, Len(num)))

float_unsigned(num) == float_split(num, first_dot(num))

negated(f) == [exc |-> f.exc, val |-> -f.val]

\* float() of a stripped text
float_signed(body) ==
    IF body = <<>> THEN [exc |-> "ValueError", val |-> 0]
    ELSE IF body[1] = "-" THEN negated(float_unsigned(Tail(body)))
    ELSE IF body[1] = "+" THEN float_unsigned(Tail(body))
    ELSE float_unsigned(body)

\* float(v) in hundredths
py_float(v) ==
    CASE v.t \in {"num", "bool"} -> [exc |-> "none", val |-> v.n]
      [] v.t = "str" -> float_signed(str_strip(v.s))
      [] OTHER -> [exc |-> "TypeError", val |-> 0]

\* The converted number as it is, without the clamp.
unclamped(f) == f

\* max(0.0, min(1.0, f)) of a conversion that did not raise
clamped(f) ==
    IF f.exc # "none" THEN f
    ELSE [exc |-> "none",
          val |-> IF f.val < 0 THEN 0 ELSE IF f.val > 100 THEN 100 ELSE f.val]

\* _clamp(v) = max(0.0, min(1.0, float(v)))
_clamp(v) == clamped(py_float(v))

\* "if not findings" is true for None, 0, False, "" and []; otherwise the
\* findings are iterated, which a number or True does not allow.
_fmt_findings(findings) ==
    IF findings.t \in {"null", "list"} \/ (findings.t = "str" /\ findings.s = <<>>)
       \/ (findings.t \in {"num", "bool"} /\ findings.n = 0)
    THEN "none"
    ELSE IF findings.t \in {"num", "bool"} THEN "TypeError" ELSE "none"

\* x[:300] of a value: a str or a list can be sliced
py_slice(v) == IF v.t \in {"str", "list"} THEN "none" ELSE "TypeError"

\* bool(v)
py_bool(v) ==
    CASE v.t \in {"num", "bool"} -> v.n # 0
      [] v.t = "str"  -> v.s # <<>>
      [] OTHER -> FALSE

\* First exception of a sequence of evaluation outcomes, "none" if none.
RECURSIVE first_exc(_)
first_exc(excs) ==
    IF excs = <<>> THEN "none"
    ELSE IF Head(excs) # "none" THEN Head(excs) ELSE first_exc(Tail(excs))

-----------------------------------------------------------------------------
(* The auxiliary classifiers (cv_deepfake_detector.py,                     *)
(* spatial_artifact_detector.py).                                          *)

AuxResult(score, label) == [kind |-> "aux", score |-> score, label |-> label]
\* A fallback that reports the media as clean.
CleanResult == AuxResult(0, "REAL")
Neutral == AuxResult(DefaultScore, "UNCERTAIN")

\* The canned result of each detector: {"score": 0.12, "label": "REAL"} for
\* the ViT classifier, {"score": 0.18, "label": "REAL"} for the spatial CNN.
MockCvScore == 12
MockSpatialScore == 18
_MOCK_RESULT(c) ==
    AuxResult(IF c = "cv" THEN MockCvScore ELSE MockSpatialScore, "REAL")

\* Scores a loaded model may give.
DetectorScores == {12, 91}
\* label = "FAKE" if fake_score >= 0.5 else "REAL"
FakeThreshold == 50
detector_label(fake_score) == IF fake_score >= FakeThreshold THEN "FAKE" ELSE "REAL"

-----------------------------------------------------------------------------
(* DeepfakePipeline.run_image / run_audio / run_video                      *)

\* The calls gathered first, in the order they are passed to gather.
ProbeOrder(kind) ==
    CASE kind = "image" -> <<"probe_a", "probe_b", "cv", "spatial">>
      [] kind = "audio" -> <<"probe_a", "probe_b">>
      [] kind = "video" -> <<"probe_a", "probe_b", "probe_c", "cv", "spatial">>

ProbeCalls(kind) == {ProbeOrder(kind)[i] : i \in 1..Len(ProbeOrder(kind))}

\* Whether the auxiliary classifiers are handed an image: always for an
\* image, for a video only when a keyframe could be extracted.
HasFrame(m) == m.kind = "image" \/ (m.kind = "video" /\ ~_extract_jpeg_frame(m).none)

\* The provider calls made when the first gather is scheduled: every vision
\* probe, and a classifier call unless _cv_video_best_effort /
\* _spatial_video_best_effort returns before making it.
ProviderCalls(m) ==
    {c \in ProbeCalls(m.kind) : c \in GeminiProbes \/ HasFrame(m)}

MediaReturned(c, status, value) ==
    /\ Returned(c, status, value)
    /\ first_done' = IF first_done = "none" THEN c ELSE first_done

\* Lines 357-371, 444-455, 547-564: the probes are gathered.
StartMedia(kind) ==
    /\ pipeline = "none"
    /\ pc = "idle"
    /\ \E m \in Payloads(kind) :
          /\ media' = m
          /\ call'   = [c \in AllCalls |->
                           IF c \in ProbeCalls(kind) THEN "pending" ELSE call[c]]
          /\ issued' = [c \in AllCalls |->
                           IF c \in ProviderCalls(m) THEN issued[c] + 1 ELSE issued[c]]
    /\ pipeline' = kind
    /\ pc' = "probes"
    /\ UNCHANGED <<pure, config, sent, reply, first_done, claim_type, pro_search, con_search,
                   no_evidence, degraded, pro_sources, con_sources, probe, aux,
                   result, err>>

\* _MOCK_RESPONSES[response_key] for the vision calls
MockVision(c) == IF c = "synth" THEN JsonReply(MockSynth) ELSE JsonReply(MockProbe)

VisionReplies(c) == IF c = "synth" THEN SynthReplies ELSE ProbeReplies

\* GeminiClient.generate_with_vision: the canned reply in mock mode; in real
\* mode the model's text, or the SDK's exception, logged and raised again.
_MAX_VISION_B64 == 15000000

too_large_off_by_one(media_b64) == media_b64.len > _MAX_VISION_B64 + 1

too_large(media_b64) == media_b64.len > _MAX_VISION_B64

NotSent == "none"

\* What generate_with_vision hands to the provider: nothing in mock mode, the
\* prompt alone (self.generate) for an oversized payload, otherwise the
\* prompt with the media as inline_data.
vision_contents(media_b64) ==
    IF mock_mode THEN NotSent
    ELSE IF too_large(media_b64) THEN "text_only"
    ELSE "inline"

GenerateWithVision(c) ==
    /\ c \in MediaGemini
    /\ call[c] = "pending"
    /\ sent' = [sent EXCEPT ![c] = vision_contents(media)]
    /\ IF mock_mode THEN MediaReturned(c, "done", MockVision(c))
       ELSE \/ \E r \in VisionReplies(c) : MediaReturned(c, "done", r)
            \/ MediaReturned(c, "raised", NoReply)
    /\ UNCHANGED <<pure, config, pipeline, pc, issued, claim_type, pro_search,
                   con_search, no_evidence, degraded, pro_sources, con_sources,
                   media, probe, aux, result, err>>

\* detect_image, and for a video _cv_video_best_effort /
\* _spatial_video_best_effort around it: the neutral result without a frame;
\* the canned result in mock mode; else the model's score, or the neutral
\* result when loading or inference failed (caught inside the detector).
DetectImage(c) ==
    /\ c \in AuxCalls
    /\ call[c] = "pending"
    /\ IF ~HasFrame(media) THEN MediaReturned(c, "done", Neutral)
       ELSE IF ai_mock_mode THEN MediaReturned(c, "done", _MOCK_RESULT(c))
       ELSE \/ \E sc \in DetectorScores :
                  MediaReturned(c, "done", AuxResult(sc, detector_label(sc)))
            \/ MediaReturned(c, "caught", Neutral)
    /\ UNCHANGED <<pure, config, sent, pipeline, pc, issued, claim_type, pro_search,
                   con_search, no_evidence, degraded, pro_sources, con_sources,
                   media, probe, aux, result, err>>

\* Results handed out in completion order: the first name gets the result
\* of the vision probe that completed first.
gather_completion_order(c) ==
    IF first_done \in {"probe_b", "probe_c"}
    THEN IF c = "probe_a" THEN reply[first_done]
         ELSE IF c = first_done THEN reply["probe_a"]
         ELSE reply[c]
    ELSE reply[c]

\* The tuple "a, b, ... = await asyncio.gather(...)": the result bound to
\* the name of call c is the result of call c, whichever completed first.
gather_result(c) == reply[c]

\* Evaluation of the keyword arguments of _XXX_SYNTH_PROMPT.format(...), in
\* their order: the first exception raised, "none" if none.
prompt_exc(kind, p) ==
    first_exc([i \in 1..(2 * Len(SelectSeq(ProbeOrder(kind), LAMBDA c : c \in GeminiProbes))) |->
                 LET c == ProbeOrder(kind)[(i + 1) \div 2]
                 IN  IF i % 2 = 1
                     THEN _clamp(dict_get(p[c].score, JNum(DefaultScore))).exc
                     ELSE _fmt_findings(dict_get(p[c].findings, JList))])

\* Lines 373-397, 457-470, 571-592: parse the probes, build the synthesis
\* prompt, call the synthesiser.
ProbesResume ==
    /\ pipeline \in {"image", "audio", "video"}
    /\ pc = "probes"
    /\ \/ /\ GatherRaised(ProbeCalls(pipeline))
          /\ Raise("ProviderError")
          /\ UNCHANGED <<call, reply, issued, degraded, first_done, probe, aux>>
       \/ /\ ~GatherRaised(ProbeCalls(pipeline))
          /\ GatherDone(ProbeCalls(pipeline))
          /\ LET parsed == [c \in GeminiProbes |->
                              IF c \in ProbeCalls(pipeline)
                              THEN _parse_probe(gather_result(c)) ELSE NoReply]
                 exc    == prompt_exc(pipeline, parsed)
             IN  IF exc # "none"
                 THEN /\ Raise(exc)
                      /\ UNCHANGED <<call, reply, issued, degraded, first_done, probe, aux>>
                 ELSE /\ probe' = parsed
                      /\ aux' = [c \in AuxCalls |->
                                    IF c \in ProbeCalls(pipeline)
                                    THEN gather_result(c) ELSE NoReply]
                      /\ JoinAndIssue(ProbeCalls(pipeline), {"synth"})
                      /\ UNCHANGED reply
                      /\ first_done' = "none"
                      /\ pc' = "synth"
                      /\ UNCHANGED err
    /\ UNCHANGED <<pure, config, sent, pipeline, claim_type, pro_search, con_search, no_evidence,
                   pro_sources, con_sources, media, result>>

Stage(name, finding, score) == [name |-> name, finding |-> finding, score |-> score]

\* The finding of a classifier stage: the label and score it reports, or
\* the "No extractable keyframe" text of run_video.
AuxFinding(r) == [label |-> r.label, score |-> r.score]
Skipped == [label |-> "skipped", score |-> 0]

\* The stage of a vision probe.
probe_stage(name, p) ==
    Stage(name, dict_get(p.summary, JStr(S_inconclusive)),
          _clamp(dict_get(p.score, JNum(DefaultScore))).val)

\* The stage of a classifier; has_frame is always true for an image.
aux_stage(name, r, has_frame) ==
    Stage(name, IF has_frame THEN AuxFinding(r) ELSE Skipped,
          _clamp(JNum(r.score)).val)

\* A stage list with the vision probes only.
vision_stages(kind, p, a) ==
    CASE kind = "image" ->
            << probe_stage("GAN & Artifact Scan", p["probe_a"]),
               probe_stage("Facial Consistency Check", p["probe_b"]) >>
      [] kind = "audio" ->
            << probe_stage("Prosody Analysis", p["probe_a"]),
               probe_stage("Spectral Fingerprint Analysis", p["probe_b"]) >>
      [] kind = "video" ->
            << probe_stage("Visual Artifact Scan", p["probe_a"]),
               probe_stage("Facial Consistency Check", p["probe_b"]),
               probe_stage("Temporal Consistency Analysis", p["probe_c"]) >>

\* The signals written into the synthesis prompt by
\* _IMG_SYNTH_PROMPT / _AUD_SYNTH_PROMPT / _VID_SYNTH_PROMPT.format(...):
\* for every gathered call, in order, its score rounded to two places and,
\* for a classifier, its label.
Signal(c, score, label) == [call |-> c, score |-> score, label |-> label]

synth_signal(c, p, a) ==
    IF c \in GeminiProbes
    THEN Signal(c, _clamp(dict_get(p[c].score, JNum(DefaultScore))).val, "probe")
    ELSE Signal(c, _clamp(JNum(a[c].score)).val, a[c].label)

synth_signals(kind, p, a) ==
    [i \in 1..Len(ProbeOrder(kind)) |-> synth_signal(ProbeOrder(kind)[i], p, a)]

\* The "stages = [...]" lists of run_image, run_audio and run_video, without
\* the final Synthesis Verdict stage.
probe_stages(kind, p, a) ==
    CASE kind = "image" ->
            << probe_stage("GAN & Artifact Scan", p["probe_a"]),
               probe_stage("Facial Consistency Check", p["probe_b"]),
               aux_stage("ViT AI-Image Classifier", a["cv"], TRUE),
               aux_stage("Spatial Artifact CNN", a["spatial"], TRUE) >>
      [] kind = "audio" ->
            << probe_stage("Prosody Analysis", p["probe_a"]),
               probe_stage("Spectral Fingerprint Analysis", p["probe_b"]) >>
      [] kind = "video" ->
            LET _has_frame == a["cv"].label # "UNCERTAIN"
            IN  << probe_stage("Visual Artifact Scan", p["probe_a"]),
                   probe_stage("Facial Consistency Check", p["probe_b"]),
                   probe_stage("Temporal Consistency Analysis", p["probe_c"]),
                   aux_stage("ViT AI-Image Classifier", a["cv"], _has_frame),
                   aux_stage("Spatial Artifact CNN", a["spatial"], _has_frame) >>

\* The DeepfakeResult made of the parsed synthesis, or the exception one
\* of its conversions raises: the slice of the reasoning is evaluated
\* before the clamp of the confidence.
deepfake_result(kind, synth, confidence, p, a) ==
    IF py_slice(dict_get(synth.reasoning, JStr(S_inconclusive))) # "none"
    THEN [exc |-> py_slice(dict_get(synth.reasoning, JStr(S_inconclusive))),
          val |-> NoResult]
    ELSE IF confidence.exc # "none" THEN [exc |-> confidence.exc, val |-> NoResult]
    ELSE [exc |-> "none",
          val |-> [kind       |-> "deepfake",
                   is_fake    |-> py_bool(dict_get(synth.is_fake, JBool(FALSE))),
                   confidence |-> confidence.val,
                   reasoning  |-> dict_get(synth.reasoning, JStr(S_complete)),
                   stages     |-> Append(probe_stages(kind, p, a),
                                         Stage("Synthesis Verdict",
                                               dict_get(synth.reasoning, JStr(S_inconclusive)),
                                               confidence.val)),
                   media_type |-> kind]]

synth_confidence(synth) == _clamp(dict_get(synth.confidence, JNum(DefaultScore)))

synth_parsed(kind, synth, p, a) ==
    deepfake_result(kind, synth, synth_confidence(synth), p, a)

\* From the synthesiser's reply to the DeepfakeResult.
synth_outcome(kind, synth_raw, p, a) ==
    synth_parsed(kind, _parse_synthesis(synth_raw), p, a)

\* Lines 398-440, 471-501, 593-651: parse the synthesis and return.
SynthResume ==
    /\ pipeline \in {"image", "audio", "video"}
    /\ pc = "synth"
    /\ \/ /\ call["synth"] = "raised"
          /\ Raise("ProviderError")
          /\ UNCHANGED result
       \/ /\ Completed("synth")
          /\ LET out == synth_outcome(pipeline, reply["synth"], probe, aux)
             IN  IF out.exc # "none"
                 THEN Raise(out.exc) /\ UNCHANGED result
                 ELSE /\ result' = out.val
                      /\ pc' = "done"
                      /\ UNCHANGED err
    /\ UNCHANGED <<pure, config, sent, pipeline, call, reply, issued, first_done, claim_type,
                   pro_search, con_search, no_evidence, degraded, pro_sources,
                   con_sources, media, probe, aux>>

-----------------------------------------------------------------------------

NoMedia == [kind |-> "none"]

Settings ==
    /\ ai_mock_mode \in BOOLEAN
    /\ gemini_api_key \in BOOLEAN
    /\ serper_api_key \in BOOLEAN
    /\ google_fact_check_api_key \in BOOLEAN

\* The settings as config.py defaults them.
DefaultSettings ==
    /\ ai_mock_mode = TRUE
    /\ gemini_api_key = FALSE
    /\ serper_api_key = FALSE
    /\ google_fact_check_api_key = FALSE

Idle ==
    /\ pipeline = "none"
    /\ pc = "idle"
    /\ call = [c \in AllCalls |-> "idle"]
    /\ reply = [c \in AllCalls |-> NoReply]
    /\ issued = [c \in AllCalls |-> 0]
    /\ first_done = "none"
    /\ claim_type = <<>>
    /\ pro_search = <<>>
    /\ con_search = <<>>
    /\ no_evidence = FALSE
    /\ degraded = FALSE
    /\ pro_sources = <<>>
    /\ con_sources = <<>>
    /\ media = NoMedia
    /\ probe = [c \in GeminiProbes |-> NoReply]
    /\ aux = [c \in AuxCalls |-> NoReply]
    /\ result = NoResult
    /\ err = "none"
    /\ sent = [c \in MediaGemini |-> NotSent]

NoLink == <<>>
NoScore == [tier |-> -1]
NoEvent == [label |-> "none"]

Unscored ==
    /\ link = NoLink
    /\ scored = NoScore

NoRegion == [name |-> "none"]

Unassessed ==
    /\ event = NoEvent
    /\ assessed = <<>>
    /\ region = NoRegion
    /\ region_scored = NoRegion

\* Python None and floats in thousandths: Fin(v) is the finite value v/1000,
\* Huge a finite double so large that eight times it is past the largest
\* double, Inf(sign) an infinity.
PyNone == [k |-> "none"]
Fin(v) == [k |-> "fin", v |-> v]
Huge == [k |-> "huge"]
Inf(sign) == [k |-> "inf", sign |-> sign]

\* HeatmapEvent(...) as the seed list writes it: the scoring fields are None.
SeedEvent(cx, cy, label, count, severity, category, confidence, virality, trend,
          coordinated, spike) ==
    [cx |-> cx, cy |-> cy, label |-> label, count |-> count, severity |-> severity,
     category |-> category, confidence_score |-> Fin(confidence),
     virality_score |-> Fin(virality), trend |-> trend,
     is_coordinated |-> coordinated, is_spike_anomaly |-> spike,
     reality_score |-> PyNone, risk_level |-> "None", next_action |-> PyNone]

\* Three of the thirteen seed hotspots.
SeedEvents ==
    << SeedEvent(22, 38, "New York", 312, "high", "Health", 870, 1400, "up", "True", "False"),
       SeedEvent(16, 43, "Los Angeles", 198, "medium", "Politics", 740, 1100, "up", "False", "False"),
       SeedEvent(49, 30, "Berlin", 134, "medium", "Climate", 680, 900, "same", "False", "False") >>

RegionStats(name, events, delta, severity) ==
    [name |-> name, events |-> events, delta |-> delta, severity |-> severity,
     reality_score |-> PyNone, risk_level |-> "None", next_action |-> PyNone]

\* Two of the six seed regions.
SeedRegions ==
    << RegionStats("North America", 847, 12, "high"),
       RegionStats("South America", 391, -4, "medium") >>

NarrativeItem(rank, title, category, volume, trend) ==
    [rank |-> rank, title |-> title, category |-> category, volume |-> volume,
     trend |-> trend]

SeedNarratives ==
    << NarrativeItem(1, "Vaccine microchip conspiracy", "Health", 14200, "up"),
       NarrativeItem(2, "AI-generated election footage", "Politics", 11800, "up"),
       NarrativeItem(3, "Manipulated climate data graph", "Climate", 9400, "up"),
       NarrativeItem(4, "False banking collapse rumour", "Finance", 7600, "down"),
       NarrativeItem(5, "Doctored satellite images", "Conflict", 6300, "up"),
       NarrativeItem(6, "Miracle cure claims", "Health", 5100, "same") >>

NoResponse == [category |-> "none"]

\* The module-level lists as import leaves them; no request served yet.
Unserved ==
    /\ _EVENTS = SeedEvents
    /\ _REGIONS = SeedRegions
    /\ _NARRATIVES = SeedNarratives
    /\ response = NoResponse

Threads == {"t1", "t2"}

\* CvDeepfakeDetector.__init__ / SpatialArtifactDetector.__init__; loads and
\* failed are history: the model loads started and those that failed.
Unloaded ==
    /\ detector = [_load_attempted |-> FALSE, _pipe |-> "None", loads |-> 0, failed |-> 0]
    /\ worker = [t \in Threads |-> [pc |-> "idle", result |-> "none", cause |-> "none", calls |-> 0]]

Init == Settings /\ Idle /\ Unscored /\ Unassessed /\ Unserved /\ Unloaded

Next ==
    \/ StartDebate
    \/ \E c \in SerperCalls : SerperSearch(c)
    \/ FactCheckSearch
    \/ \E c \in DebateGemini : Generate(c)
    \/ Stage1Resume
    \/ ArgueResume
    \/ JudgeResume
    \/ \E kind \in {"image", "audio", "video"} : StartMedia(kind)
    \/ \E c \in MediaGemini : GenerateWithVision(c)
    \/ \E c \in AuxCalls : DetectImage(c)
    \/ ProbesResume
    \/ SynthResume

Spec == Init /\ [][Next]_vars

-----------------------------------------------------------------------------
(* source_evaluator: the credibility tier of a search result's URL.        *)
(* Scores are in hundredths.                                               *)

\* A sample of the registry, in the order of the source, with the whole
\* nih.gov family and at least one entry of each tier.
_TIER_REGISTRY ==
    <<
      [domain |-> <<"r","e","u","t","e","r","s",".","c","o","m">>,
       tier |-> 1, score |-> 97, name |-> <<"R","e","u","t","e","r","s">>],
      [domain |-> <<"b","b","c",".","c","o",".","u","k">>,
       tier |-> 1, score |-> 93, name |-> <<"B","B","C">>],
      [domain |-> <<"p","u","b","m","e","d",".","n","c","b","i",".","n","l","m",".","n","i","h",".","g","o","v">>,
       tier |-> 1, score |-> 97, name |-> <<"P","u","b","M","e","d">>],
      [domain |-> <<"n","c","b","i",".","n","l","m",".","n","i","h",".","g","o","v">>,
       tier |-> 1, score |-> 96, name |-> <<"N","C","B","I">>],
      [domain |-> <<"n","i","h",".","g","o","v">>,
       tier |-> 1, score |-> 95, name |-> <<"N","I","H">>],
      [domain |-> <<"g","o","v",".","u","k">>,
       tier |-> 1, score |-> 93, name |-> <<"U","K"," ","G","o","v","e","r","n","m","e","n","t">>],
      [domain |-> <<"n","y","t","i","m","e","s",".","c","o","m">>,
       tier |-> 2, score |-> 82, name |-> <<"N","e","w"," ","Y","o","r","k"," ","T","i","m","e","s">>],
      [domain |-> <<"w","i","k","i","p","e","d","i","a",".","o","r","g">>,
       tier |-> 3, score |-> 60, name |-> <<"W","i","k","i","p","e","d","i","a">>],
      [domain |-> <<"b","r","i","t","a","n","n","i","c","a",".","c","o","m">>,
       tier |-> 3, score |-> 65, name |-> <<"E","n","c","y","c","l","o","p","a","e","d","i","a"," ","B","r","i","t","a","n","n","i","c","a">>],
      [domain |-> <<"t","h","e","o","n","i","o","n",".","c","o","m">>,
       tier |-> 0, score |-> 5, name |-> <<"T","h","e"," ","O","n","i","o","n"," ","(","S","a","t","i","r","e",")">>]
    >>

S_unknown_source == <<"U","n","k","n","o","w","n"," ","s","o","u","r","c","e">>

LowerChar(c) ==
    IF \E i \in 1..26 : UpperChars[i] = c
    THEN LowerChars[CHOOSE i \in 1..26 : UpperChars[i] = c]
    ELSE c

\* str.lower()
str_lower(s) == [i \in 1..Len(s) |-> LowerChar(s[i])]

\* s.endswith(suffix)
str_endswith(s, suffix) ==
    /\ Len(suffix) <= Len(s)
    /\ SubSeq(s, Len(s) - Len(suffix) + 1, Len(s)) = suffix

\* s.startswith(prefix)
str_startswith(s, prefix) ==
    /\ Len(prefix) <= Len(s)
    /\ SubSeq(s, 1, Len(prefix)) = prefix

\* s.find(c) for a set of characters: the first position holding one of
\* them, counted from 1, or Len(s) + 1 if there is none.
find_any(s, chars) ==
    LET hits == {i \in 1..Len(s) : s[i] \in chars}
    IN  IF hits = {} THEN Len(s) + 1
        ELSE CHOOSE i \in hits : \A j \in hits : i <= j

IsAlpha(c) == \E i \in 1..26 : LowerChars[i] = c \/ UpperChars[i] = c
IsSchemeChar(c) == IsAlpha(c) \/ IsDigit(c) \/ c \in {"+", "-", "."}

\* urlsplit: what is left of the URL after its "scheme:" prefix, if it has one
after_scheme(url) ==
    LET i == find_any(url, {":"})
    IN  IF /\ i > 1
           /\ i <= Len(url)
           /\ IsAlpha(url[1])
           /\ \A k \in 1..(i - 1) : IsSchemeChar(url[k])
        THEN SubSeq(url, i + 1, Len(url))
        ELSE url

\* urlsplit: the netloc is what stands between a leading "//" and the next
\* "/", "?" or "#"; there is none without the "//".
netloc_of(rest) ==
    IF str_startswith(rest, <<"/", "/">>)
    THEN SubSeq(rest, 3, 2 + find_any(SubSeq(rest, 3, Len(rest)), {"/", "?", "#"}) - 1)
    ELSE <<>>

\* urlsplit raises ValueError("Invalid IPv6 URL") on an unbalanced bracket.
unbalanced(netloc) ==
    (\E i \in 1..Len(netloc) : netloc[i] = "[")
        # (\E i \in 1..Len(netloc) : netloc[i] = "]")

\* re.sub(r"^www\.", "", host)
strip_www(host) ==
    IF str_startswith(host, <<"w", "w", "w", ".">>)
    THEN SubSeq(host, 5, Len(host))
    ELSE host

domain_of(netloc) ==
    IF unbalanced(netloc) THEN <<>>           \* except Exception: return ""
    ELSE strip_www(str_lower(netloc))

_extract_domain(url) == domain_of(netloc_of(after_scheme(url)))

\* domain == registered or domain.endswith("." + registered)
matches(domain, registered) ==
    domain = registered \/ str_endswith(domain, <<".">> \o registered)

unknown_unrated(domain) ==
    [domain |-> <<>>, tier |-> 5, score |-> 0,
     name |-> IF domain = <<>> THEN S_unknown_source ELSE domain]

\* Default: unknown domain -> tier 4
unknown(domain) ==
    [domain |-> <<>>, tier |-> 4, score |-> 30,
     name |-> IF domain = <<>> THEN S_unknown_source ELSE domain]

\* The loop over the registry from entry i on; best is the entry kept so far.
RECURSIVE best_match(_, _, _, _)
best_match(registry, domain, i, best) ==
    IF i > Len(registry) THEN best
    ELSE IF /\ matches(domain, registry[i].domain)
            /\ Len(registry[i].domain) > Len(best.domain)
         THEN best_match(registry, domain, i + 1, registry[i])
         ELSE best_match(registry, domain, i + 1, best)

scored_as(url, domain, data) ==
    [link |-> url, domain |-> domain, credibility_score |-> data.score,
     tier |-> data.tier, tier_label |-> data.name]

score_domain(url, domain) ==
    scored_as(url, domain, best_match(_TIER_REGISTRY, domain, 1, unknown(domain)))

score_result(url) == score_domain(url, _extract_domain(url))

\* The URLs of the model: scheme, userinfo, leading label(s), host, port and
\* path put together in every combination, plus some malformed ones.
UrlSchemes == {<<>>, <<"h","t","t","p","s",":","/","/">>, <<"H","T","T","P",":","/","/">>}
UrlUsers == {<<>>, <<"u","@">>}
UrlLabels == {<<>>, <<"w","w","w",".">>, <<"m",".">>, <<"e","v","i","l">>}
UrlHosts ==
    {<<>>, <<"n","i","h",".","g","o","v">>, <<"N","C","B","I",".","n","l","m",".","n","i","h",".","g","o","v">>,
     <<"p","u","b","m","e","d",".","n","c","b","i",".","n","l","m",".","n","i","h",".","g","o","v">>,
     <<"b","b","c",".","c","o",".","u","k">>, <<"t","h","e","o","n","i","o","n",".","c","o","m">>,
     <<"b","r","i","t","a","n","n","i","c","a",".","c","o","m">>,
     <<"e","x","a","m","p","l","e",".","o","r","g">>}
UrlPorts == {<<>>, <<":","4","4","3">>}
UrlPaths == {<<>>, <<"/","a","?","b","#","c">>}
MalformedUrls ==
    {<<"h","t","t","p",":","/","/","[","n","i","h",".","g","o","v","/">>, <<"h","t","t","p","s",":","/","n","i","h",".","g","o","v">>, <<":","/","/","n","i","h",".","g","o","v">>,
     <<"/","/","w","w","w",".","n","i","h",".","g","o","v","#","x">>, <<"n","i","h",".","g","o","v",":","8","0","/","x">>}

Urls ==
    MalformedUrls \cup
    {sch \o usr \o lab \o host \o port \o path :
        sch \in UrlSchemes, usr \in UrlUsers, lab \in UrlLabels,
        host \in UrlHosts, port \in UrlPorts, path \in UrlPaths}

ScoreResult ==
    /\ scored = NoScore
    /\ scored' = score_result(link)
    /\ UNCHANGED <<engine, link, stability, heatmap, detectors>>

InitCredibility ==
    /\ DefaultSettings
    /\ Idle
    /\ link \in Urls
    /\ scored = NoScore
    /\ Unassessed
    /\ Unserved
    /\ Unloaded

NextCredibility == ScoreResult

SpecCredibility == InitCredibility /\ [][NextCredibility]_vars

-----------------------------------------------------------------------------
(* generate_with_vision on payloads around the inline ceiling.  The payload *)
(* is represented by its length alone: the method looks at nothing else.    *)

VisionSizes ==
    {0, _MAX_VISION_B64 - 1, _MAX_VISION_B64, _MAX_VISION_B64 + 1,
     2 * _MAX_VISION_B64}

SizedPayload(kind, n) == [kind |-> kind, b64_ok |-> TRUE, bytes |-> <<>>, len |-> n]

\* One of the pipeline's vision calls, made with a payload of n characters.
CallVision(c, n) ==
    /\ pipeline = "none"
    /\ pc = "idle"
    /\ \E kind \in {"image", "audio", "video"} :
          /\ c \in ProbeCalls(kind) \cup {"synth"}
          /\ pipeline' = kind
          /\ media' = SizedPayload(kind, n)
    /\ pc' = "vision"
    /\ call' = [call EXCEPT ![c] = "pending"]
    /\ issued' = [issued EXCEPT ![c] = issued[c] + 1]
    /\ UNCHANGED <<pure, config, sent, reply, first_done, claim_type, pro_search,
                   con_search, no_evidence, degraded, pro_sources, con_sources,
                   probe, aux, result, err>>

NextVision ==
    \/ \E c \in MediaGemini, n \in VisionSizes : CallVision(c, n)
    \/ \E c \in MediaGemini : GenerateWithVision(c)

SpecVision == Init /\ [][NextVision]_vars

-----------------------------------------------------------------------------
(* stability_scorer: the Reality Stability score of a hotspot event.        *)
(* Numbers are in thousandths (Fin, Huge, Inf above).  The finite inputs   *)
(* of the model are exact in binary wherever an exact sum falls on a half, *)
(* so that the sums below are the sums the doubles give.                   *)

\* Longest chain of assess_event applications to one event.
MaxApplications == 2

Min(a, b) == IF a < b THEN a ELSE b
Max(a, b) == IF a > b THEN a ELSE b

\* _SEVERITY_PENALTY.get(severity, _SEVERITY_PENALTY["low"]), severity or "low"
severity_penalty(severity) ==
    CASE severity = "high" -> 22 * 1000
      [] severity = "medium" -> 10 * 1000
      [] OTHER -> 3 * 1000

\* min(count / _COUNT_SCALE, _MAX_COUNT_PENALTY)
count_penalty(count) == Min((count * 1000) \div 125, 20 * 1000)

\* confidence_score * _CONFIDENCE_SCALE, None read as 0.5
confidence_penalty(confidence_score) ==
    IF confidence_score = PyNone THEN 500 * 18 ELSE confidence_score.v * 18

\* max(0.0, (virality_score - 1.0) * _VIRALITY_SCALE), None read as 1.0;
\* the product of a Huge virality overflows to +inf
virality_penalty(virality_score) ==
    IF virality_score = PyNone THEN Fin(0)
    ELSE IF virality_score = Huge THEN Inf(1)
    ELSE Fin(Max(0, (virality_score.v - 1000) * 8))

\* if is_coordinated: score -= _COORDINATED_PENALTY (None read as False)
coordinated_penalty(is_coordinated) == IF is_coordinated = "True" THEN 9 * 1000 ELSE 0

\* if is_spike_anomaly: score -= _SPIKE_PENALTY (None read as False)
spike_penalty(is_spike_anomaly) == IF is_spike_anomaly = "True" THEN 7 * 1000 ELSE 0

trend_penalty_flat(trend) == 0

\* _TREND_PENALTY.get(trend, 0), trend or "same"
trend_penalty(trend) ==
    CASE trend = "up" -> 5 * 1000
      [] trend = "down" -> -(3 * 1000)
      [] OTHER -> 0

start_from_previous(e) ==
    IF e.reality_score = PyNone THEN 100 * 1000 ELSE e.reality_score.v

\* score = 100.0
start_score(e) == 100 * 1000

\* The finite part of the subtraction chain.
finite_penalties(e) ==
    severity_penalty(e.severity) + count_penalty(e.count)
    + confidence_penalty(e.confidence_score)
    + coordinated_penalty(e.is_coordinated) + spike_penalty(e.is_spike_anomaly)
    + trend_penalty(e.trend)

\* score after the seven subtractions: x - inf is -inf
subtracted(start, finite, virality) ==
    IF virality.k = "inf" THEN Inf(-1) ELSE Fin(start - finite - virality.v)

\* floor(v / 1000) for an integer v of either sign
floor_thousands(v) == IF v >= 0 THEN v \div 1000 ELSE -((-v + 999) \div 1000)

\* round(x) of a finite x: to the nearest integer, a half to the even one
half_even(q, r) ==
    IF r < 500 THEN q
    ELSE IF r > 500 THEN q + 1
    ELSE IF q % 2 = 0 THEN q ELSE q + 1

\* round(score): OverflowError on an infinity
py_round(x) ==
    IF x.k = "inf"
    THEN [exc |-> "OverflowError", val |-> 0]
    ELSE [exc |-> "none",
          val |-> half_even(floor_thousands(x.v), x.v - 1000 * floor_thousands(x.v))]

\* max(0, min(100, round(score)))
clamp_rounded(rounded) ==
    IF rounded.exc # "none" THEN rounded
    ELSE [exc |-> "none", val |-> Max(0, Min(100, rounded.val))]

compute_reality_score(e) ==
    clamp_rounded(py_round(subtracted(start_score(e), finite_penalties(e),
                                      virality_penalty(e.virality_score))))

risk_level_above(reality_score) ==
    IF reality_score > 80 THEN "LOW"
    ELSE IF reality_score > 60 THEN "MEDIUM"
    ELSE IF reality_score > 40 THEN "HIGH"
    ELSE "CRITICAL"

\* The first of _RISK_THRESHOLDS that the score reaches.
compute_risk_level(reality_score) ==
    IF reality_score >= 80 THEN "LOW"
    ELSE IF reality_score >= 60 THEN "MEDIUM"
    ELSE IF reality_score >= 40 THEN "HIGH"
    ELSE "CRITICAL"

\* The recommended intervention: its leading keyword, the signal it names
\* and, for the ALERT text, the partner the f-string puts in.
Action(verb, signal, partner) == [verb |-> verb, signal |-> signal, partner |-> partner]

next_action_coordinated_first(e, risk_level) ==
    CASE risk_level = "CRITICAL" ->
            IF e.is_coordinated = "True" THEN Action("DEPLOY", "coordinated", "")
            ELSE IF e.is_spike_anomaly = "True" THEN Action("ESCALATE", "spike", "")
            ELSE Action("ESCALATE", "", "")
      [] risk_level = "HIGH" ->
            IF e.is_coordinated = "True" THEN Action("FLAG", "coordinated", "")
            ELSE IF e.is_spike_anomaly = "True" THEN Action("INVESTIGATE", "spike", "")
            ELSE Action("ALERT", "", IF e.category = "" THEN "sector" ELSE e.category)
      [] risk_level = "MEDIUM" -> Action("MONITOR", "", "")
      [] OTHER -> Action("LOG", "", "")

compute_next_action(e, risk_level) ==
    CASE risk_level = "CRITICAL" ->
            IF e.is_coordinated = "True" THEN Action("DEPLOY", "coordinated", "")
            ELSE IF e.is_spike_anomaly = "True" THEN Action("ESCALATE", "spike", "")
            ELSE Action("ESCALATE", "", "")
      [] risk_level = "HIGH" ->
            IF e.is_spike_anomaly = "True" THEN Action("INVESTIGATE", "spike", "")
            ELSE IF e.is_coordinated = "True" THEN Action("FLAG", "coordinated", "")
            ELSE Action("ALERT", "", IF e.category = "" THEN "sector" ELSE e.category)
      [] risk_level = "MEDIUM" -> Action("MONITOR", "", "")
      [] OTHER -> Action("LOG", "", "")

\* event.model_copy(update={...})
model_copy(e, score, risk) ==
    [e EXCEPT !.reality_score = Fin(score * 1000),
              !.risk_level = risk,
              !.next_action = compute_next_action(e, risk)]

assessed_with(e, score) ==
    IF score.exc # "none" THEN [exc |-> score.exc, val |-> NoEvent]
    ELSE [exc |-> "none", val |-> model_copy(e, score.val, compute_risk_level(score.val))]

assess_event(e) == assessed_with(e, compute_reality_score(e))

\* The events of the model: every combination of these field values, among
\* them the extremes of the test suite and values past them.
HeatmapEvents ==
    [label : {"City"},
     count : {0, 200, 2500, 99999},
     severity : {"high", "medium", "low", "extreme"},
     category : {"", "Health"},
     confidence_score : {PyNone, Fin(-1000), Fin(0), Fin(750), Fin(1000)},
     virality_score : {PyNone, Fin(500), Fin(1500), Fin(5000), Huge},
     trend : {"None", "up", "down", "same"},
     is_coordinated : {"None", "False", "True"},
     is_spike_anomaly : {"None", "False", "True"},
     reality_score : {PyNone},
     risk_level : {"None"},
     next_action : {PyNone}]

\* The event of the USAGE example in the module docstring.
UsageEvent ==
    [label |-> "New York", count |-> 312, severity |-> "high", category |-> "Health",
     confidence_score |-> Fin(870), virality_score |-> Fin(1400), trend |-> "None",
     is_coordinated |-> "True", is_spike_anomaly |-> "None",
     reality_score |-> PyNone, risk_level |-> "None", next_action |-> PyNone]

\* assess_region: the synthetic event built from the region's aggregates.
\* virality_score = 1.0 + max(0.0, region.delta / 100.0)
synthetic(r) ==
    [label |-> r.name, count |-> r.events, severity |-> r.severity,
     category |-> "General", confidence_score |-> Fin(600),
     virality_score |-> Fin(1000 + Max(0, r.delta * 10)),
     is_coordinated |-> "False",
     is_spike_anomaly |-> IF r.delta > 25 THEN "True" ELSE "False",
     trend |-> IF r.delta > 5 THEN "up" ELSE IF r.delta < -5 THEN "down" ELSE "same",
     reality_score |-> PyNone, risk_level |-> "None", next_action |-> PyNone]

\* region.model_copy(update={...})
region_copy(r, e, score, risk) ==
    [r EXCEPT !.reality_score = Fin(score * 1000),
              !.risk_level = risk,
              !.next_action = compute_next_action(e, risk)]

region_assessed_with(r, e, score) ==
    IF score.exc # "none" THEN [exc |-> score.exc, val |-> NoRegion]
    ELSE [exc |-> "none", val |-> region_copy(r, e, score.val, compute_risk_level(score.val))]

assess_region(r) == region_assessed_with(r, synthetic(r), compute_reality_score(synthetic(r)))

\* The regions of the model.
Regions ==
    [name : {"Europe"},
     events : {0, 391, 1204, 99999},
     delta : {-40, -6, -5, 0, 5, 6, 25, 26, 31, 400},
     severity : {"high", "medium", "low", "extreme"},
     reality_score : {PyNone},
     risk_level : {"None"},
     next_action : {PyNone}]

AssessRegion ==
    /\ region # NoRegion
    /\ region_scored = NoRegion
    /\ region_scored' = assess_region(region)
    /\ UNCHANGED <<engine, credibility, event, assessed, region, heatmap, detectors>>

\* assess_event applied to the event, or to the record the last application
\* returned.
AssessEvent ==
    /\ event # NoEvent
    /\ Len(assessed) < MaxApplications
    /\ assessed # <<>> => assessed[Len(assessed)].exc = "none"
    /\ assessed' = Append(assessed,
                      assess_event(IF assessed = <<>> THEN event
                                   ELSE assessed[Len(assessed)].val))
    /\ UNCHANGED <<engine, credibility, event, region, region_scored, heatmap, detectors>>

InitStability ==
    /\ DefaultSettings
    /\ Idle
    /\ Unscored
    /\ Unserved
    /\ Unloaded
    /\ \/ /\ event \in HeatmapEvents \cup {UsageEvent}
          /\ region = NoRegion
       \/ /\ event = NoEvent
          /\ region \in Regions
    /\ assessed = <<>>
    /\ region_scored = NoRegion

NextStability ==
    \/ AssessEvent
    \/ AssessRegion

SpecStability == InitStability /\ [][NextStability]_vars

-----------------------------------------------------------------------------
(* routes/heatmap: GET /api/v1/heatmap served from the seed data.  The      *)
(* module-level lists hold objects; a list(...) copy or a comprehension     *)
(* holds the same objects, so an assignment to an attribute of an item      *)
(* shows in the module-level list.                                          *)

\* The category query parameter: omitted, empty, "all" in two spellings, the
\* categories of the seed narratives and one that matches nothing.
Categories ==
    {"None", "", "all", "ALL", "Health", "Politics", "Climate", "Finance",
     "Conflict", "Sports"}

\* db: no database, one whose queries raise, one that holds no documents.
Databases == {"None", "failing", "empty"}

\* category and category.lower() != "all"
filtering(category) == category \notin {"None", "", "all", "ALL"}

\* The positions of the items the request keeps, in list order.
kept(items, category) ==
    {i \in 1..Len(items) : filtering(category) => items[i].category = category}

\* [x for x in items if ...]: the kept positions as a list
RECURSIVE positions(_, _)
positions(keep, from) ==
    IF \A i \in keep : i < from THEN <<>>
    ELSE IF from \in keep THEN <<from>> \o positions(keep, from + 1)
    ELSE positions(keep, from + 1)

\* for i, narrative in enumerate(narratives): narrative.rank = i + 1
\* run over the kept items of a filtered request: the list afterwards.
reranked(items, order) ==
    [j \in 1..Len(items) |->
        IF \E i \in 1..Len(order) : order[i] = j
        THEN [items[j] EXCEPT !.rank = CHOOSE i \in 1..Len(order) : order[i] = j]
        ELSE items[j]]

narratives_after(items, category) ==
    IF filtering(category)
    THEN reranked(items, positions(kept(items, category), 1))
    ELSE items

assessed_in_place(e) == assess_event(e).val

\* The object handed to assess_event, after the call: model_copy builds a
\* new object and leaves this one alone.
input_after_assess(e) == e

\* The object handed to assess_region, after the call.
input_after_assess_region(r) == r

\* [f(x) for x in items at the positions of order]
picked(items, order) == [i \in 1..Len(order) |-> items[order[i]]]

\* sum(r.events for r in regions)
RECURSIVE sum_events(_)
sum_events(regions) ==
    IF regions = <<>> THEN 0 ELSE regions[1].events + sum_events(Tail(regions))

HeatmapResponse(category, events, regions, narratives, total) ==
    [category |-> category,
     events |-> [i \in 1..Len(events) |-> assess_event(events[i]).val],
     regions |-> [i \in 1..Len(regions) |-> assess_region(regions[i]).val],
     narratives |-> narratives,
     total_events |-> total]

\* get_heatmap: with no database, a failing one or an empty one the events
\* and regions are the seed ones.
GetHeatmap(category, db) ==
    /\ _NARRATIVES' = narratives_after(_NARRATIVES, category)
    /\ _EVENTS' = [i \in 1..Len(_EVENTS) |->
                      IF i \in kept(_EVENTS, category)
                      THEN input_after_assess(_EVENTS[i]) ELSE _EVENTS[i]]
    /\ _REGIONS' = [i \in 1..Len(_REGIONS) |-> input_after_assess_region(_REGIONS[i])]
    /\ response' =
          HeatmapResponse(category,
                          picked(_EVENTS, positions(kept(_EVENTS, category), 1)),
                          _REGIONS,
                          picked(_NARRATIVES', positions(kept(_NARRATIVES, category), 1)),
                          sum_events(_REGIONS))
    /\ UNCHANGED <<engine, credibility, stability, detectors>>

InitHeatmap ==
    /\ DefaultSettings
    /\ Idle
    /\ Unscored
    /\ Unassessed
    /\ Unserved
    /\ Unloaded

NextHeatmap == \E category \in Categories, db \in Databases : GetHeatmap(category, db)

SpecHeatmap == InitHeatmap /\ [][NextHeatmap]_vars

-----------------------------------------------------------------------------
(* cv_deepfake_detector / spatial_artifact_detector: one detector singleton *)
(* and the worker threads that asyncio.to_thread gives to concurrent        *)
(* detect_image calls.  The threads share self._load_attempted and          *)
(* self._pipe without a lock; a step is one read or write of an attribute,  *)
(* or one call into the library.                                            *)

\* detect_image calls made on one thread, one after the other.
MaxCallsPerThread == 2

At(t, pc_) == worker[t].pc = pc_

Goto(t, pc_) == worker' = [worker EXCEPT ![t].pc = pc_]

\* _detect_sync returns: the call is over.
Finish(t, label, cause) ==
    worker' = [worker EXCEPT ![t].pc = "idle", ![t].result = label, ![t].cause = cause]

\* detect_image: the mock result, or _detect_sync handed to a worker thread
DetectCall(t) ==
    /\ At(t, "idle")
    /\ worker[t].calls < MaxCallsPerThread
    /\ IF ai_mock_mode
       THEN worker' = [worker EXCEPT ![t].result = "REAL", ![t].cause = "mock",
                                     ![t].calls = worker[t].calls + 1]
       ELSE worker' = [worker EXCEPT ![t].pc = "load", ![t].result = "none",
                                     ![t].cause = "none",
                                     ![t].calls = worker[t].calls + 1]
    /\ UNCHANGED <<engine, credibility, stability, heatmap, detector>>

\* _load: if self._load_attempted
ReadLoadAttempted(t) ==
    /\ At(t, "load")
    /\ Goto(t, IF detector._load_attempted THEN "attempted" ELSE "first")
    /\ UNCHANGED <<engine, credibility, stability, heatmap, detector>>

\* _load: return self._pipe is not None, and _detect_sync returning the
\* neutral result when that is False
ReadPipe(t) ==
    /\ At(t, "attempted")
    /\ IF detector._pipe # "None" THEN Goto(t, "infer")
       ELSE Finish(t, "UNCERTAIN",
                   IF \E u \in Threads : At(u, "loading") THEN "load_running"
                   ELSE "load_failed")
    /\ UNCHANGED <<engine, credibility, stability, heatmap, detector>>

\* _load: self._load_attempted = True, then the call of hf_pipeline begins
SetLoadAttempted(t) ==
    /\ At(t, "first")
    /\ detector' = [detector EXCEPT !._load_attempted = TRUE,
                                    !.loads = detector.loads + 1]
    /\ Goto(t, "loading")
    /\ UNCHANGED <<engine, credibility, stability, heatmap>>

\* _load: hf_pipeline returns and self._pipe is assigned, or it raises,
\* self._pipe = None, and _detect_sync returns the neutral result
LoadEnds(t) ==
    /\ At(t, "loading")
    /\ \/ /\ detector' = [detector EXCEPT !._pipe = "model"]
          /\ Goto(t, "infer")
       \/ /\ detector' = [detector EXCEPT !._pipe = "None",
                                          !.failed = detector.failed + 1]
          /\ Finish(t, "UNCERTAIN", "load_failed")
    /\ UNCHANGED <<engine, credibility, stability, heatmap>>

\* _detect_sync: decode, self._pipe(img), label; any exception gives the
\* neutral result
Infer(t) ==
    /\ At(t, "infer")
    /\ IF detector._pipe = "None"
       THEN Finish(t, "UNCERTAIN", "pipe_gone")
       ELSE \/ \E label \in {"FAKE", "REAL"} : Finish(t, label, "classified")
            \/ Finish(t, "UNCERTAIN", "inference_failed")
    /\ UNCHANGED <<engine, credibility, stability, heatmap, detector>>

InitDetector ==
    /\ ai_mock_mode \in BOOLEAN
    /\ gemini_api_key = FALSE
    /\ serper_api_key = FALSE
    /\ google_fact_check_api_key = FALSE
    /\ Idle
    /\ Unscored
    /\ Unassessed
    /\ Unserved
    /\ Unloaded

NextDetector ==
    \E t \in Threads :
        \/ DetectCall(t)
        \/ ReadLoadAttempted(t)
        \/ ReadPipe(t)
        \/ SetLoadAttempted(t)
        \/ LoadEnds(t)
        \/ Infer(t)

SpecDetector == InitDetector /\ [][NextDetector]_vars

-----------------------------------------------------------------------------
(* Properties of DebatePipeline.run                                        *)

Returned_debate == pipeline = "debate" /\ pc = "done" /\ result.kind = "debate"

\* C1: every result DebatePipeline.run returns has a verdict among TRUE,
\* FALSE, MISLEADING, UNVERIFIED, SATIRE and an integer confidence in
\* [0,100], whatever the judge replied.
C1_VerdictAndConfidenceInRange ==
    Returned_debate =>
        /\ result.verdict \in VerdictType
        /\ result.confidence \in 0..100

\* C2: an exception leaves a run of either pipeline only when a provider
\* call itself raised; the content of the replies never makes a run raise.
C2_RaisesOnlyOnProviderFailure ==
    pc = "raised" => \E c \in AllCalls : call[c] = "raised"

\* The verdict words the upper-cased text contains.
TokensIn(text) ==
    {v \in {V_TRUE, V_FALSE, V_MISLEADING, V_SATIRE} : str_contains(str_upper(text), v)}

\* The judge replied with a text json.loads makes no object of.
JudgeUnparsed == Returned_debate /\ reply["judge"].obj = NoObj

\* C3: when the judge's reply holds no parseable JSON object, a reply that
\* contains exactly one of TRUE, FALSE, MISLEADING, SATIRE yields that
\* verdict, and a reply that contains none of them yields UNVERIFIED with
\* confidence 30.
C3_JudgeParseFailurePolicy ==
    JudgeUnparsed =>
        LET found == TokensIn(reply["judge"].text)
        IN  /\ \A v \in found : found = {v} => result.verdict = v
            /\ found = {} => /\ result.verdict = V_UNVERIFIED
                             /\ result.confidence = 30

\* A lower-case verdict word in a reply that is not JSON was found.
C3_Witness ==
    /\ JudgeUnparsed
    /\ reply["judge"].text = J_true_lower
    /\ result.verdict = V_TRUE

\* C4: for every text the classifier returns, empty and whitespace-only
\* text included, the run goes on with a claim type among the five known
\* ones: once the first stage is over and no provider call raised, the
\* claim type is one of them.
C4_ClaimTypeAlwaysKnown ==
    (/\ pipeline = "debate"
     /\ pc \notin {"idle", "classify_search"}
     /\ \A c \in AllCalls : call[c] # "raised")
    => claim_type \in ClaimTypes

\* The stage of run() that awaits a Gemini call, and the calls of the
\* stages after it.
stage_of(c) ==
    CASE c = "classifier" -> "classify_search"
      [] c \in AgentCalls -> "argue"
      [] c = "judge"      -> "judge"
later_calls(c) ==
    CASE c = "classifier" -> AgentCalls \cup {"judge"}
      [] c \in AgentCalls -> {"judge"}
      [] c = "judge"      -> {}

\* C5: an exception raised by the classifier, an argument agent or the
\* judge propagates to the caller of run: the run is still awaiting that
\* stage or has ended with the exception, no result is returned and no call
\* of a later stage is issued.
C5_GeminiFailurePropagates ==
    \A c \in DebateGemini :
        call[c] = "raised" =>
            /\ pc \in {stage_of(c), "raised"}
            /\ pc = "raised" => err = "ProviderError"
            /\ result = NoResult
            /\ \A d \in later_calls(c) : issued[d] = 0 /\ call[d] = "idle"

\* An argument agent raised and run() ended with the exception.
C5_Witness ==
    /\ pipeline = "debate"
    /\ call["agent_con"] = "raised"
    /\ pc = "raised"
    /\ issued["judge"] = 0

\* The last provider call of each pipeline.
TerminalCalls == {"judge", "synth"}

C7_SourcesNeverEmpty ==
    Returned_debate =>
        /\ result.pro_sources # <<>>
        /\ result.con_sources # <<>>
        /\ _extract_sources(pro_search) = <<>> => result.pro_sources = ProFallback
        /\ _extract_sources(con_search) = <<>> => result.con_sources = ConFallback
        /\ no_evidence => result.sources = ProFallback \o ConFallback

\* A run in which every lookup returned the empty list returned a result
\* with the fixed citations on both sides.
C7_Witness ==
    /\ Returned_debate
    /\ no_evidence
    /\ result.pro_sources = ProFallback
    /\ result.con_sources = ConFallback

\* C8: a run in which every lookup returned no data returns a result whose
\* confidence is at most 35, and does not raise.
C8_NoEvidenceLowConfidence ==
    (/\ pipeline = "debate"
     /\ no_evidence
     /\ pc \in {"done", "raised"}
     /\ \A c \in AllCalls : call[c] # "raised")
    => /\ pc = "done"
       /\ result.confidence <= 35

-----------------------------------------------------------------------------
(* Properties of both pipelines                                            *)

\* The provider calls a run makes in all.
CallsOfRun ==
    IF pipeline = "debate" THEN DebateCalls
    ELSE IF pipeline = "none" THEN {}
    ELSE ProviderCalls(media) \cup {"synth"}

Scheduled(c) == call[c] # "idle"

\* C9: every provider call is issued at most once, and exactly once in a
\* run that returns; the argument agents start only after the classifier
\* and the five lookups have completed, the judge only after both agents
\* have completed, the synthesiser only after every probe and auxiliary
\* classifier of the request has completed, and nothing is issued besides
\* the calls of the run, so the synthesiser's call is the last one.
C9_OnceAndBarriers ==
    /\ \A c \in AllCalls : issued[c] <= 1
    /\ \A c \in AllCalls \ CallsOfRun : issued[c] = 0
    /\ pc = "done" => \A c \in CallsOfRun : issued[c] = 1 /\ Completed(c)
    /\ (\E a \in AgentCalls : Scheduled(a)) =>
          \A c \in Stage1Calls : issued[c] = 1 /\ Completed(c)
    /\ Scheduled("judge") =>
          \A c \in Stage1Calls \cup AgentCalls : issued[c] = 1 /\ Completed(c)
    /\ Scheduled("synth") =>
          /\ \A c \in ProbeCalls(pipeline) : Completed(c)
          /\ \A c \in ProviderCalls(media) : issued[c] = 1

\* A video run returned after its three probes, both classifiers and the
\* synthesiser were each called once.
C9_Witness ==
    /\ pipeline = "video"
    /\ pc = "done"
    /\ \A c \in MediaCalls : issued[c] = 1

\* The stage names of a DeepfakeResult, in probe-invocation order.
StageNames(kind) ==
    CASE kind = "image" -> <<"GAN & Artifact Scan", "Facial Consistency Check",
                             "ViT AI-Image Classifier", "Spatial Artifact CNN",
                             "Synthesis Verdict">>
      [] kind = "audio" -> <<"Prosody Analysis", "Spectral Fingerprint Analysis",
                             "Synthesis Verdict">>
      [] kind = "video" -> <<"Visual Artifact Scan", "Facial Consistency Check",
                             "Temporal Consistency Analysis", "ViT AI-Image Classifier",
                             "Spatial Artifact CNN", "Synthesis Verdict">>

\* The score (clamped) and the summary a probe's own reply carries.
OwnScore(c) ==
    IF c \in GeminiProbes
    THEN _clamp(dict_get(_parse_probe(reply[c]).score, JNum(50))).val
    ELSE _clamp(JNum(reply[c].score)).val
OwnSummary(c) == dict_get(_parse_probe(reply[c]).summary, JStr(S_inconclusive))

-----------------------------------------------------------------------------
(* Properties of DeepfakePipeline.run_image / run_audio / run_video        *)

Returned_media == pc = "done" /\ result.kind = "deepfake"

\* C11 as stated: the number of stages of a returned result equals the
\* number of probes invoked in the run (the forensic probes and auxiliary
\* classifiers gathered before the synthesiser).
C11_StagesEqualProbesInvoked ==
    Returned_media => Len(result.stages) = Cardinality(ProbeCalls(pipeline))

\* C11, amended: the stages of a returned result are one per gathered
\* forensic probe and auxiliary classifier plus the final Synthesis Verdict
\* stage: 5 for an image, 3 for audio, 6 for a video, also for a video
\* without extractable keyframe, whose classifiers were not run.
C11_StagesAreProbesPlusVerdict ==
    Returned_media =>
        /\ Len(result.stages) = Cardinality(ProbeCalls(pipeline)) + 1
        /\ Len(result.stages) = (CASE pipeline = "image" -> 5
                                   [] pipeline = "audio" -> 3
                                   [] pipeline = "video" -> 6)
        /\ result.stages[Len(result.stages)].name = "Synthesis Verdict"

\* A video without keyframe returned six stages although neither
\* classifier was run.
C11_Witness ==
    /\ Returned_media
    /\ pipeline = "video"
    /\ issued["cv"] = 0
    /\ issued["spatial"] = 0
    /\ Len(result.stages) = 6

Unparsed(c) == reply[c].obj = NoObj

\* C12: in every returned media result the confidence and the score of
\* every stage are in [0,1] (0..100 hundredths); a probe whose reply cannot
\* be parsed has score 0.5, and a synthesiser reply that cannot be parsed
\* gives is_fake = false with confidence 0.5.
C12_ScoresClamped ==
    Returned_media =>
        /\ result.confidence \in 0..100
        /\ \A i \in 1..Len(result.stages) : result.stages[i].score \in 0..100
        /\ \A i \in 1..Len(ProbeOrder(pipeline)) :
              (ProbeOrder(pipeline)[i] \in GeminiProbes /\ Unparsed(ProbeOrder(pipeline)[i]))
                  => result.stages[i].score = 50
        /\ Unparsed("synth") => (~result.is_fake /\ result.confidence = 50)

\* A run returned after a probe and the synthesiser reported 1.5: both
\* numbers were clamped to 1.
C12_Witness ==
    /\ Returned_media
    /\ reply["probe_a"] = JsonReply(ProbeObj(JNum(150), Absent, Absent))
    /\ reply["synth"] = JsonReply(SynthObj(JBool(TRUE), JNum(150), Absent))
    /\ result.stages[1].score = 100
    /\ result.confidence = 100

\* C13: when every vision probe scores at least 0.70 and both auxiliary
\* classifiers score below 0.30, the returned verdict has is_fake = true.
C13_WeightingRuleOne ==
    (/\ Returned_media
     /\ pipeline \in {"image", "video"}
     /\ \A i \in 1..Len(ProbeOrder(pipeline)) :
           IF ProbeOrder(pipeline)[i] \in GeminiProbes
           THEN result.stages[i].score >= 70
           ELSE result.stages[i].score < 30)
    => result.is_fake

\* C14: for a video without extractable keyframe the run does not raise
\* because of the extraction, both classifiers report 0.5 / UNCERTAIN
\* without running their models, and the two signals are left out of what
\* the synthesiser tallies.
C14_NoKeyframeSignalsExcluded ==
    (pipeline = "video" /\ ~HasFrame(media) /\ pc \in {"synth", "done"}) =>
        /\ \A c \in AuxCalls :
              /\ issued[c] = 0
              /\ aux[c] = [kind |-> "aux", score |-> 50, label |-> "UNCERTAIN"]
        /\ \A i \in 1..Len(ProbeOrder("video")) :
              synth_signals("video", probe, aux)[i].call \notin AuxCalls

\* C15: a vision call never hands the provider a payload of more than
\* 15,000,000 base64 characters: above the ceiling the call carries the prompt
\* alone (or, in mock mode, nothing at all); at or below the ceiling a call that
\* reaches the provider carries the media inline.
C15_OversizedNeverSentInline ==
    \A c \in MediaGemini :
        /\ sent[c] = "inline" => media.len <= 15000000
        /\ call[c] \in {"done", "raised"} /\ media.len > 15000000
              => sent[c] \in {"text_only", NotSent}
        /\ call[c] \in {"done", "raised"} /\ media.len > 15000000 /\ ~mock_mode
              => sent[c] = "text_only"
        /\ call[c] \in {"done", "raised"} /\ media.len <= 15000000 /\ ~mock_mode
              => sent[c] = "inline"

C15_Witness ==
    /\ media.kind = "video"
    /\ media.len = 15000001
    /\ call["probe_c"] = "done"
    /\ sent["probe_c"] = "text_only"

C15_WitnessAtCeiling ==
    /\ media.kind = "image"
    /\ media.len = 15000000
    /\ call["synth"] = "done"
    /\ sent["synth"] = "inline"

\* The host of a URL as RFC 3986 has it: the authority without its userinfo
\* and port, lower-cased, and here without a leading "www.".
after_userinfo(netloc) ==
    LET ats == {i \in 1..Len(netloc) : netloc[i] = "@"}
    IN  IF ats = {} THEN netloc
        ELSE SubSeq(netloc, (CHOOSE i \in ats : \A j \in ats : j <= i) + 1, Len(netloc))

before_port(hostport) == SubSeq(hostport, 1, find_any(hostport, {":"}) - 1)

bare_host(url) ==
    LET netloc == netloc_of(after_scheme(url))
    IN  IF unbalanced(netloc) THEN <<>>
        ELSE strip_www(str_lower(before_port(after_userinfo(netloc))))

Registered(host) ==
    {i \in 1..Len(_TIER_REGISTRY) : matches(host, _TIER_REGISTRY[i].domain)}

C17_LongestRegisteredSuffixOfHost ==
    scored # NoScore =>
        LET found == Registered(bare_host(link))
        IN  IF found = {}
            THEN scored.tier = 4 /\ scored.credibility_score = 30
            ELSE LET longest == CHOOSE i \in found : \A j \in found :
                         Len(_TIER_REGISTRY[j].domain) <= Len(_TIER_REGISTRY[i].domain)
                 IN  /\ scored.tier = _TIER_REGISTRY[longest].tier
                     /\ scored.credibility_score = _TIER_REGISTRY[longest].score
                     /\ scored.tier_label = _TIER_REGISTRY[longest].name

\* The same rule over the netloc that _extract_domain returns (port and
\* userinfo still on it): this is what the code computes.
LongestRegisteredSuffixOfNetloc ==
    scored # NoScore =>
        LET found == Registered(scored.domain)
        IN  IF found = {}
            THEN scored.tier = 4 /\ scored.credibility_score = 30
            ELSE LET longest == CHOOSE i \in found : \A j \in found :
                         Len(_TIER_REGISTRY[j].domain) <= Len(_TIER_REGISTRY[i].domain)
                 IN  /\ scored.tier = _TIER_REGISTRY[longest].tier
                     /\ scored.credibility_score = _TIER_REGISTRY[longest].score
                     /\ scored.tier_label = _TIER_REGISTRY[longest].name

-----------------------------------------------------------------------------
(* Properties of stability_scorer                                          *)

Applied(i) == i \in 1..Len(assessed)

\* The formula in exact arithmetic over the fields as compute_reality_score
\* reads them, for an event whose numbers are finite.
Finite(e) == e.virality_score # Huge

formula_thousandths(e) ==
    100000
    - (CASE e.severity = "high" -> 22000 [] e.severity = "medium" -> 10000 [] OTHER -> 3000)
    - (IF e.count * 8 < 20000 THEN e.count * 8 ELSE 20000)
    - (IF e.confidence_score = PyNone THEN 9000 ELSE 18 * e.confidence_score.v)
    - (IF e.virality_score = PyNone \/ e.virality_score.v < 1000 THEN 0
       ELSE 8 * (e.virality_score.v - 1000))
    - (IF e.is_coordinated = "True" THEN 9000 ELSE 0)
    - (IF e.is_spike_anomaly = "True" THEN 7000 ELSE 0)
    - (CASE e.trend = "up" -> 5000 [] e.trend = "down" -> -3000 [] OTHER -> 0)

\* n is x rounded to an integer (a half may go either way) and clamped.
RoundedAndClamped(n, x) ==
    \E r \in ((x - 500 + 100000000) \div 1000 - 100000)..((x + 500 + 100000000) \div 1000 - 100000) :
        /\ 2 * (1000 * r - x) \in -1000..1000
        /\ n = (IF r < 0 THEN 0 ELSE IF r > 100 THEN 100 ELSE r)

\* C18: for every event, however extreme, compute_reality_score returns an
\* integer in [0,100], the rounded and clamped value of 100 minus the severity,
\* volume, confidence, virality, coordination, spike and trend penalties.
C18_ScoreIsClampedFormula ==
    Applied(1) =>
        /\ assessed[1].exc = "none"
        /\ assessed[1].val.reality_score.v \in {1000 * n : n \in 0..100}
        /\ Finite(event) =>
              RoundedAndClamped(assessed[1].val.reality_score.v \div 1000,
                                formula_thousandths(event))

\* On the events whose numbers stay finite through the formula the score is
\* the clamped formula.
ScoreIsClampedFormulaWhenFinite ==
    Applied(1) /\ Finite(event) =>
        /\ assessed[1].exc = "none"
        /\ assessed[1].val.reality_score.v \in {1000 * n : n \in 0..100}
        /\ RoundedAndClamped(assessed[1].val.reality_score.v \div 1000,
                             formula_thousandths(event))

\* C19: assess_event applied to a record that assess_event scored returns
\* that record again, with the same reality_score, risk_level and next_action.
C19_AssessEventIdempotent ==
    \A i \in 1..Len(assessed) : \A j \in 1..Len(assessed) :
        i < j =>
            /\ assessed[j].exc = "none"
            /\ assessed[j].val = assessed[i].val
            /\ assessed[j].val.reality_score = assessed[i].val.reality_score
            /\ assessed[j].val.risk_level = assessed[i].val.risk_level
            /\ assessed[j].val.next_action = assessed[i].val.next_action
            /\ assessed[j] = assess_event(assessed[i].val)
            /\ assessed[i] = assess_event(event)

C19_Witness ==
    /\ Len(assessed) = 2
    /\ event.reality_score = PyNone
    /\ assessed[1].val.reality_score = Fin(64000)
    /\ assessed[2].val.risk_level = "MEDIUM"
    /\ assessed[2].val.next_action = Action("MONITOR", "", "")

\* The scores of the two events that are e with field f set to lower and to
\* higher: both calls raise the same exception, or both return and the first
\* score is at most the second.
Score(e) == compute_reality_score(e)

Coordinated(e, b) == [e EXCEPT !.is_coordinated = b]
Spike(e, b) == [e EXCEPT !.is_spike_anomaly = b]
Trend(e, t) == [e EXCEPT !.trend = t]

Pairs(e) ==
    { <<Coordinated(e, "True"), Coordinated(e, "False")>>,
      <<Spike(e, "True"), Spike(e, "False")>>,
      <<Trend(e, "up"), Trend(e, "down")>> }

\* C20 as stated: of two events that differ only in is_coordinated, only in
\* is_spike_anomaly or only in trend, the one with true (with "up") has the
\* strictly lower score, whenever both are scored.
C20_StrictlyLower ==
    Applied(1) =>
        \A p \in Pairs(event) :
            Score(p[1]).exc = "none" /\ Score(p[2]).exc = "none"
                => Score(p[1]).val < Score(p[2]).val

\* C20 amended: the one with true (with "up") never has the higher score, and
\* has the strictly lower one unless both scores are clamped to 0 or both to
\* 100; when the score of one cannot be computed, neither can the other's.
C20_LowerUnlessBothClamped ==
    Applied(1) =>
        \A p \in Pairs(event) :
            /\ Score(p[1]).exc = Score(p[2]).exc
            /\ Score(p[1]).exc = "none" =>
                  /\ Score(p[1]).val <= Score(p[2]).val
                  /\ Score(p[1]).val = Score(p[2]).val => Score(p[2]).val \in {0, 100}
                  /\ Score(p[2]).val \in 1..99 => Score(p[1]).val < Score(p[2]).val

C20_Witness ==
    /\ Applied(1)
    /\ event.is_spike_anomaly = "True"
    /\ event.is_coordinated = "True"
    /\ assessed[1].exc = "none"
    /\ assessed[1].val.reality_score = Fin(0)
    /\ Score(Spike(event, "False")).val = 0

-----------------------------------------------------------------------------
(* Properties of the keyframe stages of run_video                          *)

\* C28: in the result of run_video the Spatial Artifact CNN stage carries the
\* "No extractable keyframe" finding exactly when no keyframe could be
\* extracted, and with a keyframe it reports the label and score the spatial
\* classifier returned, whatever the ViT classifier returned.
C28_SpatialFindingFollowsKeyframe ==
    Returned_media /\ pipeline = "video" =>
        /\ result.stages[5].name = "Spatial Artifact CNN"
        /\ result.stages[5].finding = Skipped <=> ~HasFrame(media)
        /\ HasFrame(media) => result.stages[5].finding = AuxFinding(aux["spatial"])

-----------------------------------------------------------------------------
(* Further properties of source_evaluator                                  *)

\* The host name of a URL: its authority without userinfo and port,
\* lower-cased.
host_name(url) ==
    LET netloc == netloc_of(after_scheme(url))
    IN  IF unbalanced(netloc) THEN <<>>
        ELSE str_lower(before_port(after_userinfo(netloc)))

\* C30: the tier and score of score_result depend only on the URL's host
\* name: a URL with the same host as the scored one, whatever its scheme,
\* port, userinfo, path and query, gets the same tier and score.
C30_TierDependsOnHostOnly ==
    scored # NoScore =>
        \A u \in Urls :
            host_name(u) = host_name(link) =>
                /\ score_result(u).tier = scored.tier
                /\ score_result(u).credibility_score = scored.credibility_score

\* The score bands of the tier system, in hundredths.
TierBand(tier) ==
    CASE tier = 1 -> 85..100
      [] tier = 2 -> 65..84
      [] tier = 3 -> 40..64
      [] tier = 4 -> 15..39
      [] tier = 0 -> 0..14

\* C24: every scored result has a credibility score inside the band of its
\* tier, so that its score is at or above 0.65 exactly when its tier is 1 or 2.
C24_ScoreInsideTierBand ==
    scored # NoScore =>
        /\ scored.tier \in 0..4
        /\ scored.credibility_score \in TierBand(scored.tier)
        /\ scored.credibility_score >= 65 <=> scored.tier \in {1, 2}

-----------------------------------------------------------------------------
(* Further properties of stability_scorer                                  *)

RiskLevels == {"LOW", "MEDIUM", "HIGH", "CRITICAL"}

\* Integer scores around and beyond the range of compute_reality_score.
Scores == -20..120

RiskOf(n) ==
    CASE n >= 80 -> "LOW"
      [] n \in 60..79 -> "MEDIUM"
      [] n \in 40..59 -> "HIGH"
      [] n < 40 -> "CRITICAL"

CarriesOwnRisk(rec) ==
    rec.exc = "none" => rec.val.risk_level = RiskOf(rec.val.reality_score.v \div 1000)

\* C21: compute_risk_level gives LOW from 80 up, MEDIUM for 60..79, HIGH for
\* 40..59 and CRITICAL below 40, and every record that assess_event or
\* assess_region returned carries the level of its own reality_score.
C21_RiskLevelOfOwnScore ==
    /\ \A n \in Scores : compute_risk_level(n) = RiskOf(n)
    /\ \A i \in 1..Len(assessed) : CarriesOwnRisk(assessed[i])
    /\ region_scored # NoRegion => CarriesOwnRisk(region_scored)

C21_Witness ==
    /\ region_scored # NoRegion
    /\ region_scored.exc = "none"
    /\ region_scored.val.reality_score = Fin(59000)
    /\ region_scored.val.risk_level = "HIGH"

\* C22: the next action is decided by the risk level first and the flags
\* second: CRITICAL gives DEPLOY when coordinated, else the rapid-response
\* ESCALATE when spike, else the editorial ESCALATE; HIGH gives INVESTIGATE when
\* spike, else FLAG when coordinated, else ALERT; MEDIUM gives MONITOR and LOW
\* gives LOG whatever the flags.
C22_NextActionDecisionTree ==
    event # NoEvent =>
        /\ \A risk \in RiskLevels :
              LET a == compute_next_action(event, risk)
                  coordinated == event.is_coordinated = "True"
                  spike == event.is_spike_anomaly = "True"
              IN  /\ risk = "CRITICAL" /\ coordinated => a = Action("DEPLOY", "coordinated", "")
                  /\ risk = "CRITICAL" /\ ~coordinated /\ spike
                        => a = Action("ESCALATE", "spike", "")
                  /\ risk = "CRITICAL" /\ ~coordinated /\ ~spike
                        => a = Action("ESCALATE", "", "")
                  /\ risk = "HIGH" /\ spike => a = Action("INVESTIGATE", "spike", "")
                  /\ risk = "HIGH" /\ ~spike /\ coordinated
                        => a = Action("FLAG", "coordinated", "")
                  /\ risk = "HIGH" /\ ~spike /\ ~coordinated => a.verb = "ALERT"
                  /\ risk = "MEDIUM" => a = Action("MONITOR", "", "")
                  /\ risk = "LOW" => a = Action("LOG", "", "")
        /\ \A i \in 1..Len(assessed) :
              assessed[i].exc = "none" =>
                  assessed[i].val.next_action =
                      compute_next_action(event, assessed[i].val.risk_level)

C22_Witness ==
    /\ Applied(1)
    /\ event.is_coordinated = "True"
    /\ event.is_spike_anomaly = "True"
    /\ assessed[1].exc = "none"
    /\ assessed[1].val.risk_level = "HIGH"
    /\ assessed[1].val.next_action = Action("INVESTIGATE", "spike", "")

\* C25: assess_event on the event of the documented usage example (count 312,
\* severity high, confidence 0.87, virality 1.4, coordinated) yields
\* reality_score 28, risk_level CRITICAL and the DEPLOY action.
C25_UsageExample ==
    Applied(1) /\ event = UsageEvent =>
        /\ assessed[1].exc = "none"
        /\ assessed[1].val.reality_score = Fin(28000)
        /\ assessed[1].val.risk_level = "CRITICAL"
        /\ assessed[1].val.next_action.verb = "DEPLOY"

\* What the code yields for that event.
UsageExampleIsHigh ==
    Applied(1) /\ event = UsageEvent =>
        /\ assessed[1].exc = "none"
        /\ assessed[1].val.reality_score = Fin(48000)
        /\ assessed[1].val.risk_level = "HIGH"
        /\ assessed[1].val.next_action = Action("FLAG", "coordinated", "")

-----------------------------------------------------------------------------
(* Properties of the heatmap snapshot                                      *)

Served == response # NoResponse

\* out is the record in with reality_score, risk_level and next_action set.
ScoredCopyOf(out, in) ==
    /\ out = [in EXCEPT !.reality_score = out.reality_score,
                        !.risk_level = out.risk_level,
                        !.next_action = out.next_action]
    /\ out.reality_score # PyNone
    /\ out.risk_level \in RiskLevels

\* C23: every event of a snapshot is its seed hotspot with reality_score,
\* risk_level and next_action set and nothing else changed, and the entries of
\* the seed hotspot list are after every request what they were at import.
C23_SeedEventsNeverModified ==
    /\ _EVENTS = SeedEvents
    /\ Served =>
          LET order == positions(kept(SeedEvents, response.category), 1)
          IN  /\ Len(response.events) = Len(order)
              /\ \A i \in 1..Len(order) :
                    ScoredCopyOf(response.events[i], SeedEvents[order[i]])

C23_Witness ==
    /\ Served
    /\ response.category = "Health"
    /\ Len(response.events) = 1
    /\ response.events[1].label = "New York"
    /\ response.events[1].risk_level = "HIGH"
    /\ _EVENTS[1].risk_level = "None"

\* C29: a request without a category filter returns the six seed narratives
\* with their original ranks 1..6, whatever requests were served before it.
C29_UnfilteredRanksAreOriginal ==
    Served /\ response.category = "None" =>
        /\ Len(response.narratives) = 6
        /\ \A i \in 1..6 : response.narratives[i].rank = i

-----------------------------------------------------------------------------
(* Properties of the classifier singleton                                  *)

\* C26: the model load of a detector is started at most once, also when
\* detect_image calls run on several threads at once, and never again after
\* a failed load.
C26_LoadAtMostOnce ==
    detector.loads <= 1

\* C27: a detect_image call returns the neutral UNCERTAIN result only when
\* the model load failed or the inference on its image failed; a call made
\* while a load that then succeeds is still running returns FAKE or REAL.
C27_UncertainOnlyOnFailure ==
    \A t \in Threads :
        worker[t].result = "UNCERTAIN" =>
            \/ worker[t].cause = "inference_failed"
            \/ detector.failed > 0
            \/ \E u \in Threads : At(u, "loading")

====
